---- MODULE Spec2Model ----
(***************************************************************************)
(* A model of the scoring core of the AI service: the interaction-event    *)
(* lead scorer (core/lead_scorer.py, score_lead and _analyze_content_nlp), *)
(* the score-to-quality table, the ML/rule blend of calculate_lead_score,  *)
(* the candidate match engine (core/recommender.py) and the cache-backed   *)
(* lead endpoints (api/lead_routes.py, core/database.py).                  *)
(*                                                                         *)
(* Representation.                                                         *)
(*  - A Python str is a sequence of word tokens; '' is << >>.  The test    *)
(*    `kw in s` is containment of the keyword's tokens as a contiguous run *)
(*    of the tokens of s.  Vietnamese words are written in Telex so that   *)
(*    words differing only in diacritics stay distinct ("gias" is the word *)
(*    of 'gia cả' with its tone mark, "gia" the bare syllable).            *)
(*  - None is the value None_ below.                                       *)
(*  - A Python float is an exact fraction <<n, d>> with d > 0, kept in     *)
(*    lowest terms.                                                        *)
(***************************************************************************)
EXTENDS Integers, Sequences, FiniteSets, TLC

VARIABLES
    \* LeadScorer.score_lead: one call in progress
    interaction_data,           \* the argument: a list of interaction dicts
    idx,                        \* number of list items the for loop has consumed
    total_score,
    needs_human_intervention,
    interaction_details,
    score_pc,                   \* "idle" | "loop" | "returned"
    score_result,               \* the returned dict, None_ until the call returns
    \* pure functions applied to drawn inputs
    fn_pc,                      \* "idle" | "called" | "returned"
    fn_args,                    \* the arguments of the call
    fn_result,                  \* the returned value, None_ until the call returns
    \* the cache-backed endpoints
    redis_client,               \* cache_manager.redis_client is set
    redis,                      \* the key-value store: key |-> serialized value
    background_tasks,           \* deferred cache writes not yet run
    response                    \* the outcome of the last request

scoreVars == <<interaction_data, idx, total_score, needs_human_intervention,
               interaction_details, score_pc, score_result>>
fnVars == <<fn_pc, fn_args, fn_result>>
apiVars == <<redis_client, redis, background_tasks, response>>
vars == <<scoreVars, fnVars, apiVars>>

None_ == <<"<None>">>

\* An optional value that is not a str: None is Nothing, a value x is Some(x).
Nothing == << >>
Some(x) == <<x>>

\* {}
EmptyDict == [k \in {} |-> Nothing]

\* d.get(k, default)
Get(d, k, default) == IF k \in DOMAIN d THEN d[k] ELSE default

\* No client attached, nothing stored, no request served.
IdleApi ==
    /\ redis_client = FALSE /\ redis = EmptyDict
    /\ background_tasks = << >>
    /\ response = [endpoint |-> "", request |-> Nothing, status |-> 0, body |-> Nothing]

(***************************************************************************)
(* Bounds of the model.                                                    *)
(***************************************************************************)
MaxEvents == 3
MaxContentLen == 3

(***************************************************************************)
(* Floats as exact fractions.                                              *)
(***************************************************************************)
Abs(x) == IF x < 0 THEN -x ELSE x

RECURSIVE Gcd(_, _)
Gcd(a, b) == IF b = 0 THEN a ELSE Gcd(b, a % b)

Frac(n, d) ==
    LET g == Gcd(Abs(n), d) IN <<n \div g, d \div g>>

FInt(n) == <<n, 1>>
FAdd(a, b) == Frac(a[1] * b[2] + b[1] * a[2], a[2] * b[2])
FMul(a, b) == Frac(a[1] * b[1], a[2] * b[2])
FGe(a, b) == a[1] * b[2] >= b[1] * a[2]
FLt(a, b) == ~FGe(a, b)
FMin(a, b) == IF FGe(a, b) THEN b ELSE a
FMax(a, b) == IF FGe(a, b) THEN a ELSE b

(***************************************************************************)
(* Strings as token sequences.                                             *)
(***************************************************************************)
LowerToken(t) ==
    CASE t = "Enterprise" -> "enterprise"
      [] t = "Python" -> "python"
      [] t = "Pricing" -> "pricing"
      [] t = "Contact" -> "contact"
      [] t = "SQL" -> "sql"
      [] t = "Machine" -> "machine"
      [] t = "Learning" -> "learning"
      [] OTHER -> t

Lower(s) == [i \in 1..Len(s) |-> LowerToken(s[i])]

Contains(s, kw) ==
    \E i \in 1..(Len(s) - Len(kw) + 1) : SubSeq(s, i, i + Len(kw) - 1) = kw

Truthy(s) == s /= None_ /\ s /= << >>

RECURSIVE SumSeq(_)
SumSeq(s) == IF s = << >> THEN 0 ELSE Head(s) + SumSeq(Tail(s))

(***************************************************************************)
(* LeadScorer._determine_lead_quality                                      *)
(***************************************************************************)
\* The table with exclusive lower bounds.
DetermineLeadQualityStrict(score) ==
    IF ~FGe(FInt(80), score) THEN "hot"
    ELSE IF ~FGe(FInt(60), score) THEN "warm"
    ELSE IF ~FGe(FInt(40), score) THEN "medium"
    ELSE IF ~FGe(FInt(20), score) THEN "cold"
    ELSE "very_cold"

DetermineLeadQuality(score) ==
    IF FGe(score, FInt(80)) THEN "hot"
    ELSE IF FGe(score, FInt(60)) THEN "warm"
    ELSE IF FGe(score, FInt(40)) THEN "medium"
    ELSE IF FGe(score, FInt(20)) THEN "cold"
    ELSE "very_cold"

(***************************************************************************)
(* LeadScorer._analyze_content_nlp                                         *)
(***************************************************************************)
enterprise_keywords == <<
    <<"baos", "gias", "doanh", "nghieepj">>, <<"howpj", "tacs">>,
    <<"soos", "luowngj", "lowns">>,
    <<"enterprise">>, <<"corporate">>, <<"bulk", "training">>,
    <<"team", "training">>,
    <<"partnership">>, <<"collaboration">>, <<"enterprise", "solution">> >>

positive_keywords == <<
    <<"mua">>, <<"ddawng", "kys">>, <<"quan", "taam">>, <<"muoons", "hocj">>,
    <<"tham", "gia">>,
    <<"chi", "phis">>, <<"gias", "car">>, <<"pricing">>, <<"cost">>,
    <<"interested">>,
    <<"enroll">>, <<"register">>, <<"sign", "up">> >>

negative_keywords == <<
    <<"khoong", "hafi", "lofng">>, <<"thaast", "vongj">>, <<"teej">>,
    <<"kems">>, <<"khoong", "toost">>,
    <<"buwcj", "booij">>, <<"tuwcs", "giaanj">>, <<"khos", "chiuj">>,
    <<"phanr", "ddoois">>,
    <<"disappointed">>, <<"frustrated">>, <<"angry">>, <<"upset">>,
    <<"terrible">>,
    <<"awful">>, <<"horrible">>, <<"worst">>, <<"hate">> >>

\* The three regular expressions of negative_patterns, on word tokens:
\*   khong \s+ \w* \s* (tot|hay|ok)   "khoong", at most one word, then the word
\*   qua \s+ (dat|cao)
\*   (rat|qua) \s+ (te|kem)
NegativePatternMatches(s) ==
    \/ \E i \in 1..Len(s) :
          /\ s[i] = "khoong"
          /\ \/ i + 1 <= Len(s) /\ s[i + 1] \in {"toost", "hay", "ok"}
             \/ i + 2 <= Len(s) /\ s[i + 2] \in {"toost", "hay", "ok"}
    \/ \E i \in 1..(Len(s) - 1) :
          s[i] = "quas" /\ s[i + 1] \in {"ddawts", "cao"}
    \/ \E i \in 1..(Len(s) - 1) :
          s[i] \in {"raast", "quas"} /\ s[i + 1] \in {"teej", "kems"}

\* The enterprise loop without its break: 30 for every keyword that matches.
EnterpriseScoreNoBreak(content_lower) ==
    30 * Len(SelectSeq(enterprise_keywords, LAMBDA kw : Contains(content_lower, kw)))

\* for keyword in enterprise_keywords: if keyword in content_lower:
\*     score += 30; break
EnterpriseScore(content_lower) ==
    IF \E k \in 1..Len(enterprise_keywords) :
          Contains(content_lower, enterprise_keywords[k])
    THEN 30 ELSE 0

\* The positive loop with a break: 5 once, however many keywords match.
PositiveScoreOnce(content_lower) ==
    IF \E k \in 1..Len(positive_keywords) : Contains(content_lower, positive_keywords[k])
    THEN 5 ELSE 0

\* for keyword in positive_keywords: if keyword in content_lower: score += 5
PositiveScore(content_lower) ==
    5 * Len(SelectSeq(positive_keywords, LAMBDA kw : Contains(content_lower, kw)))

NegativeKeywordMatches(content_lower) ==
    \E k \in 1..Len(negative_keywords) :
        Contains(content_lower, negative_keywords[k])

NegativeSentiment(content_lower) ==
    IF NegativeKeywordMatches(content_lower) THEN TRUE
    ELSE NegativePatternMatches(content_lower)

\* returns (score, negative_sentiment)
AnalyzeContentNlp(content) ==
    LET content_lower == Lower(content)
        score == EnterpriseScore(content_lower) + PositiveScore(content_lower)
    IN  <<IF score < 0 THEN 0 ELSE score, NegativeSentiment(content_lower)>>

(***************************************************************************)
(* LeadScorer.score_lead                                                   *)
(*                                                                         *)
(* An interaction is a dict with the keys type, content, duration and      *)
(* page_url.  A trace line is <<text, n>> for the line "text (+n)" and     *)
(* <<text>> for a line that names no points.                               *)
(***************************************************************************)
Event(type, page_url, duration, content) ==
    [type |-> type, page_url |-> page_url, duration |-> duration, content |-> content]

\* 'pricing' in page_url.lower() or 'gia' in page_url.lower()
IsPricingPage(e) ==
    \/ Contains(Lower(e.page_url), <<"pricing">>)
    \/ Contains(Lower(e.page_url), <<"gia">>)

\* 'python' in page_url.lower() or 'python' in content.lower()
MentionsPython(e) ==
    \/ Contains(Lower(e.page_url), <<"python">>)
    \/ Contains(Lower(e.content), <<"python">>)

\* interaction_type == 'form_submission' or 'contact' in interaction_type.lower()
IsContactForm(e) ==
    \/ e.type = <<"form", "submission">>
    \/ Contains(Lower(e.type), <<"contact">>)

\* interaction_type in ['chat', 'message'] and content
IsChatWithContent(e) ==
    /\ e.type \in {<<"chat">>, <<"message">>}
    /\ Truthy(e.content)

\* The iteration raises: None has no lower().  page_url.lower() is evaluated
\* first (Rule 1); content.lower() only when 'python' is not in the page url.
EventRaises(e) ==
    \/ e.page_url = None_
    \/ /\ ~Contains(Lower(e.page_url), <<"python">>)
       /\ e.content = None_

NoContribution == [score |-> 0, details |-> << >>, flag |-> FALSE]

\* Rule 1
RulePricing(e) ==
    IF IsPricingPage(e)
    THEN [score |-> 10, details |-> << <<"Visited pricing page", 10>> >>, flag |-> FALSE]
    ELSE NoContribution

\* Rule 2 with the threshold at five minutes.
RulePythonFiveMinutes(e) ==
    IF MentionsPython(e) /\ e.duration > 300
    THEN [score |-> 15, details |-> << <<"Viewed Python course >3min", 15>> >>, flag |-> FALSE]
    ELSE NoContribution

\* Rule 2
RulePython(e) ==
    IF MentionsPython(e) /\ e.duration > 180
    THEN [score |-> 15, details |-> << <<"Viewed Python course >3min", 15>> >>, flag |-> FALSE]
    ELSE NoContribution

\* Rule 3
RuleContactForm(e) ==
    IF IsContactForm(e)
    THEN [score |-> 20, details |-> << <<"Submitted contact form", 20>> >>, flag |-> FALSE]
    ELSE NoContribution

\* Rule 4 with the NLP line written only when no negative sentiment was found.
RuleNlpElif(e) ==
    IF IsChatWithContent(e)
    THEN LET r == AnalyzeContentNlp(e.content)
         IN  [score |-> r[1],
              details |->
                 IF r[2]
                 THEN << <<"Negative sentiment detected - needs human intervention">> >>
                 ELSE IF r[1] > 0 THEN << <<"NLP analysis", r[1]>> >> ELSE << >>,
              flag |-> r[2]]
    ELSE NoContribution

\* Rule 4
RuleNlp(e) ==
    IF IsChatWithContent(e)
    THEN LET r == AnalyzeContentNlp(e.content)
         IN  [score |-> r[1],
              details |->
                 (IF r[2]
                  THEN << <<"Negative sentiment detected - needs human intervention">> >>
                  ELSE << >>)
                 \o (IF r[1] > 0 THEN << <<"NLP analysis", r[1]>> >> ELSE << >>),
              flag |-> r[2]]
    ELSE NoContribution

\* The flag overwritten by every analysed message.
NextFlagOverwrite(flag, sentiment_flag) == sentiment_flag

\* if sentiment_flag: needs_human_intervention = True
NextFlag(flag, sentiment_flag) == IF sentiment_flag THEN TRUE ELSE flag

\* The loop body with Rule 4 ahead of the three fixed rules.
InteractionOutcomeNlpFirst(e) ==
    LET r1 == RulePricing(e)
        r2 == RulePython(e)
        r3 == RuleContactForm(e)
        r4 == RuleNlp(e)
    IN  [score |-> r1.score + r2.score + r3.score + r4.score,
         details |-> r4.details \o r1.details \o r2.details \o r3.details,
         analysed |-> IsChatWithContent(e),
         flag |-> r4.flag]

\* One iteration of the loop body, for an interaction that does not raise.
InteractionOutcome(e) ==
    LET r1 == RulePricing(e)
        r2 == RulePython(e)
        r3 == RuleContactForm(e)
        r4 == RuleNlp(e)
    IN  [score |-> r1.score + r2.score + r3.score + r4.score,
         details |-> r1.details \o r2.details \o r3.details \o r4.details,
         analysed |-> IsChatWithContent(e),
         flag |-> r4.flag]

\* The interactions the calls are drawn from.
EventPool == {
    Event(<<"page", "visit">>, <<"pricing">>, 45, << >>),
    Event(<<"page", "visit">>, <<"bang", "gia">>, 45, << >>),
    Event(<<"page", "visit">>, <<"courses", "python">>, 240, << >>),
    Event(<<"page", "visit">>, <<"courses", "python">>, 180, << >>),
    Event(<<"page", "visit">>, <<"courses">>, 240, <<"Python", "course">>),
    Event(<<"form", "submission">>, <<"contact">>, 0, <<"enterprise">>),
    Event(<<"Contact", "request">>, <<"home">>, 0, << >>),
    Event(<<"chat">>, <<"chat">>, 0, <<"enterprise", "solution", "pricing">>),
    Event(<<"chat">>, <<"chat">>, 0, <<"terrible">>),
    Event(<<"message">>, <<"Pricing">>, 0, <<"quas", "ddawts", "interested">>),
    Event(<<"chat">>, <<"chat">>, 0, <<"hello">>),
    Event(<<"chat">>, <<"chat">>, 0, << >>),
    Event(<<"page", "visit">>, None_, 45, << >>),
    Event(<<"chat">>, <<"chat">>, 0, None_),
    Event(<<"page", "visit">>, <<"courses", "python">>, 240, None_) }

SeqsUpTo(S, n) == UNION {[1..k -> S] : k \in 0..n}

\* The except branch returning what the loop had accumulated.
ErrorResultPartial ==
    [lead_score |-> total_score, quality |-> "unqualified",
     needs_human_intervention |-> TRUE,
     interaction_details |-> interaction_details, total_interactions |-> None_,
     error |-> <<"'NoneType'", "object", "has", "no", "attribute", "'lower'">>]

ErrorResult ==
    [lead_score |-> 0, quality |-> "unqualified", needs_human_intervention |-> TRUE,
     interaction_details |-> << >>, total_interactions |-> None_,
     error |-> <<"'NoneType'", "object", "has", "no", "attribute", "'lower'">>]

\* LeadScorer.score_lead as one call: the loop over the interactions and the
\* returned dict; the error dict when an iteration raises.
RECURSIVE ScoreLeadLoop(_, _)
ScoreLeadLoop(interactions, acc) ==
    IF interactions = << >> THEN acc
    ELSE LET o == InteractionOutcome(Head(interactions))
         IN  ScoreLeadLoop(Tail(interactions),
                           [total_score |-> acc.total_score + o.score,
                            needs_human_intervention |->
                                IF o.analysed
                                THEN NextFlag(acc.needs_human_intervention, o.flag)
                                ELSE acc.needs_human_intervention,
                            interaction_details |-> acc.interaction_details \o o.details])

ScoreLead(interactions) ==
    IF \E i \in 1..Len(interactions) : EventRaises(interactions[i])
    THEN ErrorResult
    ELSE LET acc == ScoreLeadLoop(interactions,
                                  [total_score |-> 0, needs_human_intervention |-> FALSE,
                                   interaction_details |-> << >>])
         IN  [lead_score |-> acc.total_score,
              quality |-> DetermineLeadQuality(FInt(acc.total_score)),
              needs_human_intervention |-> acc.needs_human_intervention,
              interaction_details |-> acc.interaction_details,
              total_interactions |-> Len(interactions),
              error |-> None_]

InitScore ==
    /\ interaction_data \in SeqsUpTo(EventPool, MaxEvents)
    /\ idx = 0
    /\ total_score = 0
    /\ needs_human_intervention = FALSE
    /\ interaction_details = << >>
    /\ score_pc = "loop"
    /\ score_result = None_
    /\ fn_pc = "idle" /\ fn_args = None_ /\ fn_result = None_
    /\ IdleApi

\* for interaction in interaction_data: one iteration that completes
ScoreLeadStep ==
    /\ score_pc = "loop"
    /\ idx < Len(interaction_data)
    /\ ~EventRaises(interaction_data[idx + 1])
    /\ LET o == InteractionOutcome(interaction_data[idx + 1])
       IN  /\ total_score' = total_score + o.score
           /\ needs_human_intervention' =
                 IF o.analysed THEN NextFlag(needs_human_intervention, o.flag)
                 ELSE needs_human_intervention
           /\ interaction_details' = interaction_details \o o.details
    /\ idx' = idx + 1
    /\ UNCHANGED <<interaction_data, score_pc, score_result, fnVars, apiVars>>

\* an iteration raises: except Exception returns the error dict
ScoreLeadRaise ==
    /\ score_pc = "loop"
    /\ idx < Len(interaction_data)
    /\ EventRaises(interaction_data[idx + 1])
    /\ score_pc' = "returned"
    /\ score_result' = ErrorResult
    /\ UNCHANGED <<interaction_data, idx, total_score, needs_human_intervention,
                   interaction_details, fnVars, apiVars>>

\* the loop is exhausted: the quality is looked up and the dict returned
ScoreLeadReturn ==
    /\ score_pc = "loop"
    /\ idx = Len(interaction_data)
    /\ score_pc' = "returned"
    /\ score_result' =
          [lead_score |-> total_score,
           quality |-> DetermineLeadQuality(FInt(total_score)),
           needs_human_intervention |-> needs_human_intervention,
           interaction_details |-> interaction_details,
           total_interactions |-> Len(interaction_data),
           error |-> None_]
    /\ UNCHANGED <<interaction_data, idx, total_score, needs_human_intervention,
                   interaction_details, fnVars, apiVars>>

NextScore == ScoreLeadStep \/ ScoreLeadRaise \/ ScoreLeadReturn

SpecScore == InitScore /\ [][NextScore]_vars

(***************************************************************************)
(* Pure functions applied to drawn arguments.                              *)
(***************************************************************************)
QualitySubdivision == 4
BlendSubdivision == 10

NlpVocabulary ==
    {"enterprise", "Enterprise", "solution", "corporate", "pricing", "interested",
     "terrible", "quas", "ddawts", "hello"}

IdleScore ==
    /\ interaction_data = << >> /\ idx = 0 /\ total_score = 0
    /\ needs_human_intervention = FALSE /\ interaction_details = << >>
    /\ score_pc = "idle" /\ score_result = None_

\* _analyze_content_nlp(content)
InitNlp ==
    /\ IdleScore /\ IdleApi
    /\ fn_pc = "called"
    /\ fn_args \in {[fn |-> "_analyze_content_nlp", content |-> c] :
                       c \in SeqsUpTo(NlpVocabulary, MaxContentLen)}
    /\ fn_result = None_

CallAnalyzeContentNlp ==
    /\ fn_pc = "called"
    /\ fn_args.fn = "_analyze_content_nlp"
    /\ fn_result' = AnalyzeContentNlp(fn_args.content)
    /\ fn_pc' = "returned"
    /\ UNCHANGED <<fn_args, scoreVars, apiVars>>

NextNlp == CallAnalyzeContentNlp

SpecNlp == InitNlp /\ [][NextNlp]_vars

\* _determine_lead_quality(score), score on the 0-100 scale
InitQuality ==
    /\ IdleScore /\ IdleApi
    /\ fn_pc = "called"
    /\ fn_args \in {[fn |-> "_determine_lead_quality", score |-> Frac(n, QualitySubdivision)] :
                       n \in 0..(100 * QualitySubdivision)}
    /\ fn_result = None_

CallDetermineLeadQuality ==
    /\ fn_pc = "called"
    /\ fn_args.fn = "_determine_lead_quality"
    /\ fn_result' = DetermineLeadQuality(fn_args.score)
    /\ fn_pc' = "returned"
    /\ UNCHANGED <<fn_args, scoreVars, apiVars>>

NextQuality == CallDetermineLeadQuality

SpecQuality == InitQuality /\ [][NextQuality]_vars

(***************************************************************************)
(* LeadScorer.calculate_lead_score: the blend of the two scores            *)
(***************************************************************************)
\* x rounded to a multiple of 1/scale; an exact tie goes to the even digit
RoundTo(x, scale) ==
    LET n == scale * x[1]
        q == n \div x[2]
        r == n % x[2]
    IN  IF 2 * r > x[2] \/ (2 * r = x[2] /\ q % 2 = 1)
        THEN Frac(q + 1, scale)
        ELSE Frac(q, scale)

\* round(x, 2)
Round2(x) == RoundTo(x, 100)

\* The weights of the blend exchanged.
FinalScoreSwapped(ml_score, rule_based_score) ==
    LET final_score ==
            FMul(FAdd(FMul(ml_score, Frac(3, 10)), FMul(rule_based_score, Frac(7, 10))),
                 FInt(100))
    IN  FMax(FInt(0), FMin(FInt(100), final_score))

\* final_score = (ml_score * 0.7 + rule_based_score * 0.3) * 100
\* final_score = max(0, min(100, final_score))
FinalScore(ml_score, rule_based_score) ==
    LET final_score ==
            FMul(FAdd(FMul(ml_score, Frac(7, 10)), FMul(rule_based_score, Frac(3, 10))),
                 FInt(100))
    IN  FMax(FInt(0), FMin(FInt(100), final_score))

\* The dict built from the two scores; final_score is the local the quality is
\* looked up with, lead_score its rounded report.
BlendResult(ml_score, rule_based_score) ==
    LET final_score == FinalScore(ml_score, rule_based_score)
    IN  [final_score |-> final_score,
         lead_score |-> Round2(final_score),
         quality |-> DetermineLeadQuality(final_score),
         ml_score |-> Round2(FMul(ml_score, FInt(100))),
         rule_based_score |-> Round2(FMul(rule_based_score, FInt(100)))]

UnitGrid == {Frac(k, 2 * BlendSubdivision) : k \in 0..(2 * BlendSubdivision)}

InitBlend ==
    /\ IdleScore /\ IdleApi
    /\ fn_pc = "called"
    /\ fn_args \in {[fn |-> "calculate_lead_score", ml_score |-> m, rule_based_score |-> r] :
                       m \in UnitGrid, r \in UnitGrid}
    /\ fn_result = None_

CallBlend ==
    /\ fn_pc = "called"
    /\ fn_args.fn = "calculate_lead_score"
    /\ fn_result' = BlendResult(fn_args.ml_score, fn_args.rule_based_score)
    /\ fn_pc' = "returned"
    /\ UNCHANGED <<fn_args, scoreVars, apiVars>>

NextBlend == CallBlend

SpecBlend == InitBlend /\ [][NextBlend]_vars

(***************************************************************************)
(* CandidateRecommender (core/recommender.py)                              *)
(*                                                                         *)
(* A candidate dict carries id, full_name and its competencies list; the   *)
(* features extract_candidate_features computes from enrollments, tasks    *)
(* and interactions (numpy means, deviations and fits) are carried as the  *)
(* values those computations return.  Dict keys and enumeration values are *)
(* plain strings.                                                          *)
(***************************************************************************)
MaxCandidates == 3

RECURSIVE JoinUnderscore(_)
JoinUnderscore(s) ==
    IF s = << >> THEN ""
    ELSE IF Len(s) = 1 THEN s[1]
    ELSE s[1] \o "_" \o JoinUnderscore(Tail(s))

\* name.lower().replace(' ', '_')
NormalizeName(name) == JoinUnderscore(Lower(name))

Mean(scores) == Frac(SumSeq(scores), Len(scores))

\* competency_vector[comp_name] = comp.get('score', 0), the last entry of a
\* name winning
CompetencyVector(competencies) ==
    LET keys == {NormalizeName(competencies[i].competency_name) : i \in 1..Len(competencies)}
        last(k) == CHOOSE i \in 1..Len(competencies) :
                      /\ NormalizeName(competencies[i].competency_name) = k
                      /\ \A j \in 1..Len(competencies) :
                            NormalizeName(competencies[j].competency_name) = k => j <= i
    IN  [k \in keys |-> competencies[last(k)].score]

\* comp.get('competency_name', '').lower() on a name that is None
CandidateRaises(candidate) ==
    \E i \in 1..Len(candidate.competencies) :
        candidate.competencies[i].competency_name = None_

\* CandidateRecommender.extract_candidate_features
ExtractCandidateFeatures(candidate) ==
    LET scores == [i \in 1..Len(candidate.competencies) |-> candidate.competencies[i].score]
    IN  [candidate_id |-> candidate.id,
         avg_competency_score |-> IF scores = << >> THEN FInt(0) ELSE Mean(scores),
         competency_vector |-> CompetencyVector(candidate.competencies),
         course_completion_rate |-> candidate.course_completion_rate,
         avg_task_score |-> candidate.avg_task_score,
         task_completion_rate |-> candidate.task_completion_rate,
         days_since_enrollment |-> candidate.days_since_enrollment,
         learning_velocity |-> candidate.learning_velocity,
         improvement_trend |-> candidate.improvement_trend,
         consistency_score |-> candidate.consistency_score,
         recent_activity |-> candidate.recent_activity,
         engagement_score |-> candidate.engagement_score]

\* CandidateRecommender._get_proficiency_level
GetProficiencyLevel(score) ==
    IF score >= 90 THEN "expert"
    ELSE IF score >= 80 THEN "advanced"
    ELSE IF score >= 70 THEN "intermediate"
    ELSE IF score >= 60 THEN "beginner"
    ELSE "novice"

\* The weights of the two terms exchanged.
SkillOverallScoreSwapped(match_rate, avg_skill_score) ==
    FMul(FAdd(FMul(match_rate, Frac(4, 10)),
              FMul(FMul(avg_skill_score, Frac(1, 100)), Frac(6, 10))),
         FInt(100))

\* overall_score = (match_rate * 0.6 + (avg_skill_score / 100) * 0.4) * 100
SkillOverallScore(match_rate, avg_skill_score) ==
    FMul(FAdd(FMul(match_rate, Frac(6, 10)),
              FMul(FMul(avg_skill_score, Frac(1, 100)), Frac(4, 10))),
         FInt(100))

\* The membership test on the skill as spelled, without lower().
SkillPresentAsSpelled(candidate_competencies, skill) ==
    JoinUnderscore(skill) \in DOMAIN candidate_competencies

\* skill_normalized in candidate_competencies
SkillPresent(candidate_competencies, skill) ==
    NormalizeName(skill) \in DOMAIN candidate_competencies

\* calculate_skill_match_score past its first return: the loop over the
\* required skills and the returned dict
MatchSkills(candidate_competencies, required_skills) ==
    LET present(skill) == SkillPresent(candidate_competencies, skill)
        matched == SelectSeq(required_skills, present)
        matched_skills ==
            [i \in 1..Len(matched) |->
                [skill |-> matched[i],
                 score |-> candidate_competencies[NormalizeName(matched[i])],
                 proficiency |->
                    GetProficiencyLevel(candidate_competencies[NormalizeName(matched[i])])]]
        missing_skills == SelectSeq(required_skills, LAMBDA skill : ~present(skill))
        skill_scores == [i \in 1..Len(matched_skills) |-> matched_skills[i].score]
        match_rate == Frac(Len(matched_skills), Len(required_skills))
        avg_skill_score == IF skill_scores = << >> THEN FInt(0) ELSE Mean(skill_scores)
        overall_score == SkillOverallScore(match_rate, avg_skill_score)
    IN  [score |-> Round2(overall_score),
         match_rate |-> Round2(FMul(match_rate, FInt(100))),
         avg_skill_score |-> Round2(avg_skill_score),
         matched_skills |-> matched_skills,
         missing_skills |-> missing_skills]

\* Without the first return an empty list reaches the returned dict, whose
\* match_rate was never assigned.
CalculateSkillMatchScoreUnguarded(candidate_competencies, required_skills) ==
    IF required_skills = << >>
    THEN [error |-> "UnboundLocalError"]
    ELSE MatchSkills(candidate_competencies, required_skills)

\* CandidateRecommender.calculate_skill_match_score
CalculateSkillMatchScore(candidate_competencies, required_skills) ==
    IF required_skills = << >>
    THEN [score |-> FInt(0), matched_skills |-> << >>, missing_skills |-> << >>]
    ELSE MatchSkills(candidate_competencies, required_skills)

\* the candidate's estimated experience level
CandidateLevel(candidate_exp_score, days_enrolled) ==
    IF FGe(candidate_exp_score, FInt(85)) /\ days_enrolled >= 365 THEN "senior"
    ELSE IF FGe(candidate_exp_score, FInt(70)) /\ days_enrolled >= 180 THEN "mid_level"
    ELSE IF FGe(candidate_exp_score, FInt(60)) THEN "junior"
    ELSE "entry_level"

\* exp_mapping.get(level, default)
ExpMappingGet(level, default) ==
    CASE level = "entry_level" -> 1
      [] level = "junior" -> 2
      [] level = "mid_level" -> 3
      [] level = "senior" -> 4
      [] level = "executive" -> 5
      [] OTHER -> default

\* The comparison of the first branch made strict.
MatchScoreStrict(candidate_score, required_score) ==
    IF candidate_score > required_score
    THEN [score |-> 100, match_quality |-> "excellent"]
    ELSE IF candidate_score = required_score - 1
    THEN [score |-> 75, match_quality |-> "good"]
    ELSE IF candidate_score = required_score - 2
    THEN [score |-> 50, match_quality |-> "fair"]
    ELSE [score |-> 25, match_quality |-> "poor"]

\* the if/elif chain over candidate_score and required_score
MatchScore(candidate_score, required_score) ==
    IF candidate_score >= required_score
    THEN [score |-> 100, match_quality |-> "excellent"]
    ELSE IF candidate_score = required_score - 1
    THEN [score |-> 75, match_quality |-> "good"]
    ELSE IF candidate_score = required_score - 2
    THEN [score |-> 50, match_quality |-> "fair"]
    ELSE [score |-> 25, match_quality |-> "poor"]

\* CandidateRecommender.calculate_experience_match
CalculateExperienceMatch(candidate_features, required_experience) ==
    LET candidate_level == CandidateLevel(candidate_features.avg_competency_score,
                                          candidate_features.days_since_enrollment)
        candidate_score == ExpMappingGet(candidate_level, 2)
        required_score == ExpMappingGet(required_experience, 3)
        m == MatchScore(candidate_score, required_score)
    IN  [score |-> m.score,
         candidate_level |-> candidate_level,
         required_level |-> required_experience,
         match_quality |-> m.match_quality]

RequiredLevels ==
    {"entry_level", "junior", "mid_level", "senior", "executive",
     "senior_level", "not_specified", "mid"}

DaysEnrolled == {0, 179, 180, 364, 365}

InitExperience ==
    /\ IdleScore /\ IdleApi
    /\ fn_pc = "called"
    /\ fn_args \in {[fn |-> "calculate_experience_match",
                     candidate_features |->
                        [avg_competency_score |-> FInt(a), days_since_enrollment |-> d],
                     required_experience |-> r] :
                       a \in 0..100, d \in DaysEnrolled, r \in RequiredLevels}
    /\ fn_result = None_

CallCalculateExperienceMatch ==
    /\ fn_pc = "called"
    /\ fn_args.fn = "calculate_experience_match"
    /\ fn_result' = CalculateExperienceMatch(fn_args.candidate_features,
                                             fn_args.required_experience)
    /\ fn_pc' = "returned"
    /\ UNCHANGED <<fn_args, scoreVars, apiVars>>

NextExperience == CallCalculateExperienceMatch

SpecExperience == InitExperience /\ [][NextExperience]_vars

\* calculate_skill_match_score(candidate_competencies, required_skills)
MaxSkills == 3

\* Required skills as job descriptions spell them, and the keys under which
\* the competency vector holds them.
SkillNames == {<<"Python">>, <<"SQL">>, <<"Machine", "Learning">>}

SkillScores == {80, 81, 90}

CompetencyVectors ==
    UNION {[keys -> SkillScores] : keys \in SUBSET {NormalizeName(s) : s \in SkillNames}}

InitSkill ==
    /\ IdleScore /\ IdleApi
    /\ fn_pc = "called"
    /\ fn_args \in {[fn |-> "calculate_skill_match_score",
                     candidate_competencies |-> v,
                     required_skills |-> r] :
                       v \in CompetencyVectors, r \in SeqsUpTo(SkillNames, MaxSkills)}
    /\ fn_result = None_

CallCalculateSkillMatchScore ==
    /\ fn_pc = "called"
    /\ fn_args.fn = "calculate_skill_match_score"
    /\ fn_result' = CalculateSkillMatchScore(fn_args.candidate_competencies,
                                             fn_args.required_skills)
    /\ fn_pc' = "returned"
    /\ UNCHANGED <<fn_args, scoreVars, apiVars>>

NextSkill == CallCalculateSkillMatchScore

SpecSkill == InitSkill /\ [][NextSkill]_vars

\* CandidateRecommender.calculate_performance_score
CalculatePerformanceScore(candidate_features) ==
    FMul(FAdd(FAdd(FMul(FMul(candidate_features.avg_task_score, Frac(1, 100)), Frac(4, 10)),
                   FMul(candidate_features.course_completion_rate, Frac(3, 10))),
              FAdd(FMul(candidate_features.task_completion_rate, Frac(2, 10)),
                   FMul(candidate_features.consistency_score, Frac(1, 10)))),
         FInt(100))

\* CandidateRecommender.calculate_learning_potential
CalculateLearningPotential(candidate_features) ==
    FMul(FAdd(FAdd(FMul(candidate_features.improvement_trend, Frac(4, 10)),
                   FMul(FMul(candidate_features.learning_velocity, Frac(1, 10)), Frac(3, 10))),
              FAdd(FMul(candidate_features.engagement_score, Frac(2, 10)),
                   FMul(candidate_features.recent_activity, Frac(1, 10)))),
         FInt(100))

\* CandidateRecommender.calculate_cultural_fit
CalculateCulturalFit(candidate_features) ==
    FMin(FAdd(FInt(70),
              FAdd(FMul(candidate_features.engagement_score, FInt(10)),
                   FMul(candidate_features.consistency_score, FInt(10)))),
         FInt(100))

\* self.recommendation_weights
recommendation_weights ==
    [skill_match |-> Frac(35, 100), experience_match |-> Frac(25, 100),
     performance_score |-> Frac(20, 100), learning_potential |-> Frac(15, 100),
     cultural_fit |-> Frac(5, 100)]

Take(s, n) == SubSeq(s, 1, IF n < Len(s) THEN n ELSE Len(s))

\* CandidateRecommender._generate_recommendation_reasons; a reason is
\* <<text>> or <<text, value>> for the formatted value
GenerateRecommendationReasons(skill_match, experience_match, performance_score, learning_potential) ==
    LET expert == SelectSeq(skill_match.matched_skills, LAMBDA m : m.score >= 90)
        expert_skills == [i \in 1..Len(expert) |-> expert[i].skill]
    IN  (IF FGe(skill_match.score, FInt(80))
         THEN << <<"Excellent skill match", RoundTo(skill_match.score, 10)>> >>
         ELSE IF FGe(skill_match.score, FInt(60))
         THEN << <<"Good skill alignment", RoundTo(skill_match.score, 10)>> >>
         ELSE << >>)
        \o (IF experience_match.score >= 75
            THEN << <<"Strong experience match", experience_match.match_quality>> >>
            ELSE << >>)
        \o (IF FGe(performance_score, FInt(80)) THEN << <<"High performance track record">> >>
            ELSE IF FGe(performance_score, FInt(60)) THEN << <<"Solid performance history">> >>
            ELSE << >>)
        \o (IF FGe(learning_potential, FInt(80)) THEN << <<"Excellent learning potential">> >>
            ELSE IF FGe(learning_potential, FInt(60)) THEN << <<"Good growth potential">> >>
            ELSE << >>)
        \o (IF expert_skills /= << >>
            THEN << <<"Expert level in", Take(expert_skills, 3)>> >>
            ELSE << >>)

\* the body of the per-candidate try block
Recommendation(candidate, required_skills, required_experience) ==
    LET candidate_features == ExtractCandidateFeatures(candidate)
        skill_match == CalculateSkillMatchScore(candidate_features.competency_vector,
                                                required_skills)
        experience_match == CalculateExperienceMatch(candidate_features, required_experience)
        performance_score == CalculatePerformanceScore(candidate_features)
        learning_potential == CalculateLearningPotential(candidate_features)
        cultural_fit == CalculateCulturalFit(candidate_features)
        overall_score ==
            FAdd(FAdd(FMul(skill_match.score, recommendation_weights.skill_match),
                      FMul(FInt(experience_match.score),
                           recommendation_weights.experience_match)),
                 FAdd(FMul(performance_score, recommendation_weights.performance_score),
                      FAdd(FMul(learning_potential, recommendation_weights.learning_potential),
                           FMul(cultural_fit, recommendation_weights.cultural_fit))))
        strong == SelectSeq(skill_match.matched_skills, LAMBDA m : m.score >= 80)
    IN  [candidate_id |-> candidate.id,
         candidate_name |-> candidate.full_name,
         overall_score |-> Round2(overall_score),
         skill_match |-> skill_match,
         experience_match |-> experience_match,
         performance_score |-> Round2(performance_score),
         learning_potential |-> Round2(learning_potential),
         cultural_fit |-> Round2(cultural_fit),
         recommendation_reasons |->
            GenerateRecommendationReasons(skill_match, experience_match,
                                          performance_score, learning_potential),
         areas_for_development |-> skill_match.missing_skills,
         strengths |-> [i \in 1..Len(strong) |-> strong[i].skill]]

\* The insertion placed before the entries of equal score.
RECURSIVE InsertBeforeTies(_, _)
InsertBeforeTies(sorted, x) ==
    IF sorted = << >> THEN <<x>>
    ELSE IF FGe(Head(sorted).overall_score, x.overall_score)
            /\ Head(sorted).overall_score /= x.overall_score
    THEN <<Head(sorted)>> \o InsertBeforeTies(Tail(sorted), x)
    ELSE <<x>> \o sorted

\* list.sort(key=overall_score, reverse=True): an entry goes behind every
\* entry already placed whose score is not smaller
RECURSIVE InsertDescending(_, _)
InsertDescending(sorted, x) ==
    IF sorted = << >> THEN <<x>>
    ELSE IF FGe(Head(sorted).overall_score, x.overall_score)
    THEN <<Head(sorted)>> \o InsertDescending(Tail(sorted), x)
    ELSE <<x>> \o sorted

RECURSIVE SortDescending(_)
SortDescending(s) ==
    IF s = << >> THEN << >>
    ELSE InsertDescending(SortDescending(SubSeq(s, 1, Len(s) - 1)), s[Len(s)])

\* s[:k]
SliceTo(s, k) ==
    IF k >= 0 THEN Take(s, k)
    ELSE IF Len(s) + k > 0 THEN SubSeq(s, 1, Len(s) + k)
    ELSE << >>

RECURSIVE Flatten(_)
Flatten(ss) == IF ss = << >> THEN << >> ELSE Head(ss) \o Flatten(Tail(ss))

\* A candidate that is not a dict: the None of a list [c1, None, c3].
NotADict == [python_type |-> "NoneType"]

IsDict(candidate) == "python_type" \notin DOMAIN candidate

\* CandidateRecommender.recommend_candidates, for a job description that holds
\* well-formed parsed_requirements.  A dict candidate whose processing raises
\* is skipped by the except branch of the loop body; for a candidate that is
\* not a dict that branch raises too, in its candidate.get('id'), and the
\* outer except returns the empty list.
RecommendCandidates(job_description, candidates, top_k) ==
    IF \E i \in 1..Len(candidates) : ~IsDict(candidates[i]) THEN << >> ELSE
    LET parsed_jd == job_description.parsed_requirements
        required_skills ==
            Flatten([i \in 1..Len(parsed_jd.skills) |-> parsed_jd.skills[i][2]])
        required_experience == parsed_jd.experience_level.level
        processed == SelectSeq(candidates, LAMBDA c : ~CandidateRaises(c))
        recommendations ==
            [i \in 1..Len(processed) |->
                Recommendation(processed[i], required_skills, required_experience)]
    IN  SliceTo(SortDescending(recommendations), top_k)

Strong ==
    [course_completion_rate |-> Frac(9, 10), avg_task_score |-> FInt(88),
     task_completion_rate |-> Frac(9, 10), days_since_enrollment |-> 400,
     learning_velocity |-> FInt(6), improvement_trend |-> Frac(7, 10),
     consistency_score |-> Frac(8, 10), recent_activity |-> Frac(1, 2),
     engagement_score |-> Frac(9, 10)]

Weak ==
    [course_completion_rate |-> Frac(1, 2), avg_task_score |-> FInt(55),
     task_completion_rate |-> Frac(1, 2), days_since_enrollment |-> 90,
     learning_velocity |-> FInt(2), improvement_trend |-> Frac(1, 2),
     consistency_score |-> Frac(1, 2), recent_activity |-> Frac(1, 10),
     engagement_score |-> Frac(3, 10)]

Candidate(id, name, competencies, metrics) ==
    [x \in {"id", "full_name", "competencies"} \cup DOMAIN metrics |->
        CASE x = "id" -> id
          [] x = "full_name" -> name
          [] x = "competencies" -> competencies
          [] OTHER -> metrics[x]]

Competency(name, score) == [competency_name |-> name, score |-> score]

\* The candidates the pools are drawn from: 1 and 2 differ in id and name
\* only, and so do 3 and 4; 5 has a competency without a name; 7 carries a
\* competency score above 100, which nothing on the way to the engine rejects;
\* the last is not a dict.
CandidatePool == {
    Candidate(1, "An", <<Competency(<<"Python">>, 92), Competency(<<"SQL">>, 84)>>, Strong),
    Candidate(2, "Binh", <<Competency(<<"Python">>, 92), Competency(<<"SQL">>, 84)>>, Strong),
    Candidate(3, "Chi", <<Competency(<<"python">>, 65)>>, Weak),
    Candidate(4, "Dung", <<Competency(<<"python">>, 65)>>, Weak),
    Candidate(5, "Em", <<Competency(<<"SQL">>, 70), Competency(None_, 50)>>, Strong),
    Candidate(6, "Giang", << >>, Strong),
    Candidate(7, "Hoa", <<Competency(<<"Python">>, 120)>>, Weak),
    NotADict }

JobDescription(skills, level) ==
    [parsed_requirements |-> [skills |-> skills, experience_level |-> [level |-> level]]]

JobPool == {
    JobDescription(<< <<"programming", << <<"Python">>, <<"SQL">> >> >>,
                      <<"ai", << <<"Machine", "Learning">> >> >> >>, "senior"),
    JobDescription(<< <<"programming", << <<"Python">> >> >> >>, "senior_level"),
    JobDescription(<< >>, "junior") }

\* candidate lists without a repeated candidate
Pools(n) ==
    {s \in SeqsUpTo(CandidatePool, n) : \A i, j \in 1..Len(s) : s[i] = s[j] => i = j}

InitRecommend ==
    /\ IdleScore /\ IdleApi
    /\ fn_pc = "called"
    /\ fn_args \in {[fn |-> "recommend_candidates", job_description |-> jd,
                     candidates |-> cs, top_k |-> k] :
                       jd \in JobPool, cs \in Pools(MaxCandidates),
                       k \in (0 - 2)..(MaxCandidates + 1)}
    /\ fn_result = None_

CallRecommendCandidates ==
    /\ fn_pc = "called"
    /\ fn_args.fn = "recommend_candidates"
    /\ fn_result' = RecommendCandidates(fn_args.job_description, fn_args.candidates,
                                        fn_args.top_k)
    /\ fn_pc' = "returned"
    /\ UNCHANGED <<fn_args, scoreVars, apiVars>>

NextRecommend == CallRecommendCandidates

SpecRecommend == InitRecommend /\ [][NextRecommend]_vars

(***************************************************************************)
(* LeadScorer.extract_features and calculate_lead_score                    *)
(*                                                                         *)
(* A lead is a dict: a function from its keys.  A str value is a token     *)
(* sequence, a list a sequence, and an optional value of another type is   *)
(* Nothing or Some(x).  A datetime, or the ISO string of one, is           *)
(* [day |-> d, aware |-> b, iso |-> s]: its day number, whether it carries *)
(* a UTC offset (a trailing 'Z' is one), and whether it is still a string. *)
(***************************************************************************)
\* datetime.now(), as a day number
Now == 30

\* settings.LEAD_SCORE_WEIGHTS
weights ==
    [email_engagement |-> Frac(30, 100), website_activity |-> Frac(25, 100),
     demographic_fit |-> Frac(20, 100), interaction_frequency |-> Frac(15, 100),
     content_engagement |-> Frac(10, 100)]

source_mapping ==
    [website |-> 5, social_media |-> 4, referral |-> 5, email_campaign |-> 3,
     paid_ads |-> 3, organic_search |-> 4, direct |-> 2, unknown |-> 1]

\* LeadScorer._encode_source, for a source that is a str
EncodeSource(source) ==
    IF Len(source) = 1 /\ LowerToken(source[1]) \in DOMAIN source_mapping
    THEN source_mapping[LowerToken(source[1])]
    ELSE 1

\* datetime.fromisoformat(created_at.replace('Z', '+00:00')) when created_at is
\* a str; a datetime is taken as it is
FromIsoformat(created_at) ==
    [day |-> created_at.day, aware |-> created_at.aware, iso |-> FALSE]

InteractionType(i) == Get(i, "interaction_type", None_)

CountOf(interactions, types) ==
    Len(SelectSeq(interactions, LAMBDA i : InteractionType(i) \in types))

\* LeadScorer._calculate_email_engagement
CalculateEmailEngagement(interactions) ==
    LET n == CountOf(interactions, {<<"email_open">>, <<"email_click">>})
        opens == CountOf(interactions, {<<"email_open">>})
        clicks == CountOf(interactions, {<<"email_click">>})
    IN  IF n = 0 THEN FInt(0)
        ELSE FMin(Frac(3 * opens + 7 * clicks, 10 * n), FInt(1))

\* i.get('metadata', {}).get('page_url', '')
PageUrlOf(i) == Get(Get(i, "metadata", Some(EmptyDict))[1], "page_url", << >>)

\* LeadScorer._calculate_website_activity
CalculateWebsiteActivity(interactions) ==
    LET website_interactions ==
            SelectSeq(interactions, LAMBDA i : InteractionType(i) = <<"view_page">>)
        unique_pages ==
            Cardinality({PageUrlOf(website_interactions[k]) :
                            k \in 1..Len(website_interactions)})
        total_visits == Len(website_interactions)
    IN  IF total_visits = 0 THEN FInt(0)
        ELSE FMin(Frac(6 * unique_pages + 4 * total_visits, 100), FInt(1))

SetMax(S) == CHOOSE x \in S : \A y \in S : y <= x
SetMin(S) == CHOOSE x \in S : \A y \in S : x <= y

\* LeadScorer._calculate_interaction_frequency
CalculateInteractionFrequency(interactions) ==
    LET dated == SelectSeq(interactions,
                           LAMBDA i : Get(i, "created_at", Nothing) /= Nothing)
        interaction_dates == [k \in 1..Len(dated) |-> FromIsoformat(dated[k].created_at[1]).day]
        days == {interaction_dates[k] : k \in 1..Len(dated)}
        total_days == IF Len(dated) > 1 THEN (SetMax(days) - SetMin(days)) + 1 ELSE 1
    IN  IF Len(dated) = 0 THEN FInt(0)
        ELSE FMin(Frac(Cardinality(days), total_days), FInt(1))

\* LeadScorer._calculate_content_engagement
CalculateContentEngagement(interactions) ==
    LET n == CountOf(interactions, {<<"submit_form">>, <<"chat_message">>})
        forms == CountOf(interactions, {<<"submit_form">>})
        chats == CountOf(interactions, {<<"chat_message">>})
    IN  IF n = 0 THEN FInt(0)
        ELSE FMin(Frac(8 * forms + 2 * chats, 10 * n), FInt(1))

premium_keywords == {"advanced", "premium", "professional", "enterprise"}

\* LeadScorer._check_premium_course_interest
CheckPremiumCourseInterest(interested_courses) ==
    IF \E k \in 1..Len(interested_courses) :
           \E keyword \in premium_keywords :
               Contains(Lower(interested_courses[k]), <<keyword>>)
    THEN 1 ELSE 0

\* The exception extract_features ends with, as str(e); << >> when it returns.
\* In statement order: source.lower() of a None source, the subtraction of an
\* offset-aware created_at from the naive datetime.now(), and .get on the None
\* metadata of a view_page interaction.
ExtractFeaturesError(lead_data) ==
    LET created_at == Get(lead_data, "created_at", Nothing)
        interactions == Get(lead_data, "interactions", << >>)
    IN  IF Get(lead_data, "source", <<"unknown">>) = None_
        THEN <<"'NoneType'", "object", "has", "no", "attribute", "'lower'">>
        ELSE IF created_at /= Nothing /\ FromIsoformat(created_at[1]).aware
        THEN <<"can't", "subtract", "offset-naive", "and", "offset-aware", "datetimes">>
        ELSE IF \E k \in 1..Len(interactions) :
                    /\ InteractionType(interactions[k]) = <<"view_page">>
                    /\ Get(interactions[k], "metadata", Some(EmptyDict)) = Nothing
        THEN <<"'NoneType'", "object", "has", "no", "attribute", "'get'">>
        ELSE << >>

\* LeadScorer.extract_features, when it returns
ExtractFeatures(lead_data) ==
    LET interactions == Get(lead_data, "interactions", << >>)
        created_at == Get(lead_data, "created_at", Nothing)
        interested_courses == Get(lead_data, "interested_courses", << >>)
    IN  [has_phone |-> IF Truthy(Get(lead_data, "phone", None_)) THEN 1 ELSE 0,
         source_encoded |-> EncodeSource(Get(lead_data, "source", <<"unknown">>)),
         total_interactions |-> Len(interactions),
         unique_interaction_types |->
             Cardinality({InteractionType(interactions[k]) : k \in 1..Len(interactions)}),
         days_since_creation |->
             IF created_at /= Nothing THEN Now - FromIsoformat(created_at[1]).day ELSE 0,
         email_engagement_score |-> CalculateEmailEngagement(interactions),
         website_activity_score |-> CalculateWebsiteActivity(interactions),
         interaction_frequency |-> CalculateInteractionFrequency(interactions),
         content_engagement_score |-> CalculateContentEngagement(interactions),
         num_interested_courses |-> Len(interested_courses),
         has_premium_interest |-> CheckPremiumCourseInterest(interested_courses)]

\* The demographic threshold moved from >= 4 to > 4.
CalculateRuleBasedScoreStrictSource(features) ==
    LET demographic_score ==
            FAdd(FAdd(IF Get(features, "has_phone", 0) /= 0 THEN Frac(3, 10) ELSE FInt(0),
                      IF Get(features, "source_encoded", 0) > 4 THEN Frac(4, 10) ELSE FInt(0)),
                 IF Get(features, "num_interested_courses", 0) > 0
                 THEN Frac(3, 10) ELSE FInt(0))
        score ==
            FAdd(FAdd(FAdd(FAdd(
                FMul(Get(features, "email_engagement_score", FInt(0)),
                     weights.email_engagement),
                FMul(Get(features, "website_activity_score", FInt(0)),
                     weights.website_activity)),
                FMul(demographic_score, weights.demographic_fit)),
                FMul(Get(features, "interaction_frequency", FInt(0)),
                     weights.interaction_frequency)),
                FMul(Get(features, "content_engagement_score", FInt(0)),
                     weights.content_engagement))
    IN  FMin(score, FInt(1))

\* LeadScorer._calculate_rule_based_score; features.get(k, 0) for every key
CalculateRuleBasedScore(features) ==
    LET demographic_score ==
            FAdd(FAdd(IF Get(features, "has_phone", 0) /= 0 THEN Frac(3, 10) ELSE FInt(0),
                      IF Get(features, "source_encoded", 0) >= 4 THEN Frac(4, 10) ELSE FInt(0)),
                 IF Get(features, "num_interested_courses", 0) > 0
                 THEN Frac(3, 10) ELSE FInt(0))
        score ==
            FAdd(FAdd(FAdd(FAdd(
                FMul(Get(features, "email_engagement_score", FInt(0)),
                     weights.email_engagement),
                FMul(Get(features, "website_activity_score", FInt(0)),
                     weights.website_activity)),
                FMul(demographic_score, weights.demographic_fit)),
                FMul(Get(features, "interaction_frequency", FInt(0)),
                     weights.interaction_frequency)),
                FMul(Get(features, "content_engagement_score", FInt(0)),
                     weights.content_engagement))
    IN  FMin(score, FInt(1))

\* LeadScorer._generate_recommendations
GenerateRecommendations(features, score) ==
    (IF FLt(features.email_engagement_score, Frac(3, 10))
     THEN <<"Improve email content and timing to increase engagement">> ELSE << >>)
    \o (IF FLt(features.website_activity_score, Frac(3, 10))
        THEN <<"Encourage more website exploration with targeted content">> ELSE << >>)
    \o (IF features.total_interactions < 3
        THEN <<"Increase touchpoints through multiple channels">> ELSE << >>)
    \o (IF features.num_interested_courses = 0
        THEN <<"Identify and promote relevant courses based on lead profile">>
        ELSE << >>)
    \o (IF FLt(score, FInt(40))
        THEN <<"Consider lead nurturing campaign to build interest">>
        ELSE IF FLt(FInt(70), score)
        THEN <<"High-quality lead - prioritize for direct contact">>
        ELSE << >>)

\* The scorer object: is_trained, and what the loaded model's prediction step
\* does, Some(p) for the probability it returns and Nothing when it raises.
\* A LeadScorer: is_trained, whether self.model holds a model, and what
\* model.predict_proba yields for a lead: Some(p), or Nothing when the
\* prediction step raises.  LeadScorer() starts without a model.
Untrained == [is_trained |-> FALSE, model |-> FALSE, prediction |-> Nothing]

\* A failed prediction counted as 0.
PredictWithModelZero(scorer) ==
    IF scorer.prediction = Nothing THEN FInt(0) ELSE scorer.prediction[1]

\* LeadScorer._predict_with_model
PredictWithModel(scorer) ==
    IF scorer.prediction = Nothing THEN Frac(1, 2) ELSE scorer.prediction[1]

\* LeadScorer.calculate_lead_score
CalculateLeadScore(scorer, lead_data) ==
    IF ExtractFeaturesError(lead_data) /= << >>
    THEN [lead_score |-> FInt(50), quality |-> "medium",
          error |-> ExtractFeaturesError(lead_data)]
    ELSE LET features == ExtractFeatures(lead_data)
             ml_score == IF scorer.is_trained /\ scorer.model THEN PredictWithModel(scorer)
                         ELSE Frac(1, 2)
             rule_based_score == CalculateRuleBasedScore(features)
             final_score == FinalScore(ml_score, rule_based_score)
         IN  [lead_score |-> Round2(final_score),
              quality |-> DetermineLeadQuality(final_score),
              ml_score |-> Round2(FMul(ml_score, FInt(100))),
              rule_based_score |-> Round2(FMul(rule_based_score, FInt(100))),
              features |-> features,
              recommendations |-> GenerateRecommendations(features, final_score)]

(***************************************************************************)
(* CacheManager (core/database.py), JSON and the deferred cache writes     *)
(*                                                                         *)
(* redis maps a key to the text stored under it.  A JSON text is           *)
(* [json |-> v] for the value v that json.loads reads back from it.        *)
(***************************************************************************)
\* d with d[k] = v
Put(d, k, v) == [x \in DOMAIN d \cup {k} |-> IF x = k THEN v ELSE d[x]]

\* d after d.pop(k, None) for each k of keys
Pop(d, keys) == [x \in DOMAIN d \ keys |-> d[x]]

\* str(id) inside an f-string: 'None' for None
IdStr(id) == IF id = Nothing THEN "None" ELSE ToString(id[1])

\* the datetime datetime.now() returns
NowDatetime == [day |-> Now, aware |-> FALSE, iso |-> FALSE]

\* str(t) of a datetime t, what default=str writes for it
StrOfDatetime(t) == [day |-> t.day, aware |-> t.aware, iso |-> TRUE]

DatetimeKeys == {"scored_at", "generated_at", "parsed_at", "analyzed_at", "updated_at"}

\* json.dumps(data, default=str) of a dict whose datetimes sit under DatetimeKeys
JsonDumps(data) ==
    [json |-> [k \in DOMAIN data |->
                   IF k \in DatetimeKeys THEN StrOfDatetime(data[k]) ELSE data[k]]]

\* json.loads(text)
JsonLoads(text) == text.json

\* CacheManager.get with its except branch taken for a hit: the stored text
\* is returned although the client raised.
CacheGetUnchecked(client, store, key, redis_ok) ==
    IF client /\ key \in DOMAIN store THEN Some(store[key]) ELSE Nothing

\* CacheManager.get: None without a client and when the client raises
CacheGet(client, store, key, redis_ok) ==
    IF client /\ redis_ok /\ key \in DOMAIN store THEN Some(store[key]) ELSE Nothing

\* A set that writes into the entry it finds: the fields of the old value
\* that the new one lacks stay.
CacheSetMerging(client, store, key, value, redis_ok) ==
    IF client /\ redis_ok
    THEN Put(store, key,
             IF key \in DOMAIN store THEN [json |-> value.json @@ store[key].json]
             ELSE value)
    ELSE store

\* CacheManager.set: the store after the call; it is left alone (and False is
\* returned) without a client and when the client raises
CacheSet(client, store, key, value, redis_ok) ==
    IF client /\ redis_ok THEN Put(store, key, value) ELSE store

\* init_cache_manager: the Redis client is attached to cache_manager
InitCacheManager ==
    /\ ~redis_client
    /\ redis_client' = TRUE
    /\ UNCHANGED <<redis, background_tasks, response, scoreVars, fnVars>>

\* the TTL given to setex runs out for one key
Expire ==
    \E key \in DOMAIN redis :
        /\ redis' = Pop(redis, {key})
        /\ UNCHANGED <<redis_client, background_tasks, response, scoreVars, fnVars>>

\* A deferred task is [prefix, id, data]: cache_lead_score, cache_jd_parse,
\* cache_competency_analysis and cache_learning_path differ in the key prefix.
CacheTask(prefix, id, data) == [prefix |-> prefix, id |-> id, data |-> data]

\* one deferred cache write runs: cache_key = f"{prefix}:{id}", then
\* cache_manager.set(cache_key, json.dumps(data, default=str), ttl=...)
RunBackgroundTask ==
    \E k \in 1..Len(background_tasks) : \E redis_ok \in BOOLEAN :
        LET task == background_tasks[k]
            cache_key == task.prefix \o ":" \o ToString(task.id)
        IN  /\ redis' = CacheSet(redis_client, redis, cache_key,
                                 JsonDumps(task.data), redis_ok)
            /\ background_tasks' =
                   SubSeq(background_tasks, 1, k - 1)
                   \o SubSeq(background_tasks, k + 1, Len(background_tasks))
            /\ UNCHANGED <<redis_client, response, scoreVars, fnVars>>

(***************************************************************************)
(* Requests                                                                *)
(***************************************************************************)
MaxBatch == 2
MaxPending == 1

Datetime(day, aware) == [day |-> day, aware |-> aware, iso |-> FALSE]

\* an interaction as posted: its created_at is an ISO string ending in 'Z'
Interaction(interaction_type, day, page_url) ==
    [interaction_type |-> <<interaction_type>>,
     created_at |-> Some([day |-> day, aware |-> TRUE, iso |-> TRUE]),
     metadata |-> Some([page_url |-> <<page_url>>])]

\* LeadData(...).dict()
LeadData(id, full_name, phone, source, created_at, interactions, interested_courses) ==
    [id |-> id, full_name |-> <<full_name>>, email |-> <<full_name, "@", "mail.vn">>,
     phone |-> phone, source |-> <<source>>, status |-> <<"new">>,
     created_at |-> created_at, interactions |-> interactions,
     interested_courses |-> interested_courses, metadata |-> Some(EmptyDict)]

\* a lead with a phone, a strong source, email and page interactions and a
\* premium course
Engaged(id, created_at) ==
    LeadData(id, "Lan", <<"0901">>, "website", created_at,
             <<Interaction("email_click", 28, "/pricing"),
               Interaction("view_page", 29, "/pricing")>>,
             << <<"advanced", "python">> >>)

LeadIds == {Nothing, Some(1)}

\* Two leads per id, the second malformed: its created_at carries a UTC
\* offset, which extract_features cannot subtract from datetime.now().
LeadPool ==
    UNION {{Engaged(id, Some(Datetime(20, FALSE))),
            Engaged(id, Some(Datetime(20, TRUE)))} : id \in LeadIds}

IsMalformed(lead_data) == ExtractFeaturesError(lead_data) /= << >>

\* include_features and include_recommendations: the defaults and their opposites
FlagPairs == {<<FALSE, TRUE>>, <<TRUE, FALSE>>}

\* the defaults of BatchLeadScoreRequest
BatchFlags == {<<FALSE, TRUE>>}

\* LeadUpdateRequest: new interactions for lead 1, and a created_at for it
\* that carries a UTC offset
UpdatePool ==
    {[lead_id |-> 1,
      new_interactions |-> <<Interaction("submit_form", 29, "/contact")>>,
      updated_fields |-> EmptyDict],
     [lead_id |-> 1,
      new_interactions |-> << >>,
      updated_fields |-> [created_at |-> Some([day |-> 20, aware |-> TRUE, iso |-> TRUE])]]}

\* lead_data as update_lead_score assembles it
UpdateLeadData(request) ==
    request.updated_fields
    @@ [id |-> Some(request.lead_id), interactions |-> request.new_interactions]

\* the ids a score is asked for: lead 2 is never scored
ReadLeadIds == {1, 2}

\* the lead_id of LeadScoreByIdRequest
ByIdLeadIds == {1}

\* calculate_lead_score of the scorer without a model, evaluated once for each
\* lead_data a request can carry
calculate_lead_score ==
    [lead_data \in LeadPool \cup {UpdateLeadData(request) : request \in UpdatePool} |->
        CalculateLeadScore(Untrained, lead_data)]

(***************************************************************************)
(* extract_features and calculate_lead_score applied to sparse lead dicts   *)
(* by scorers with and without a model.                                     *)
(***************************************************************************)
\* A dict with the key k bound to one of vals, or without the key.
Optional(k, vals) == {EmptyDict} \cup {[x \in {k} |-> v] : v \in vals}

\* Interaction lists: empty, and single interactions whose metadata or
\* created_at is given, null or missing.
SparseInteractions ==
    {<< >>,
     <<Interaction("view_page", 29, "/pricing")>>,
     <<[interaction_type |-> <<"view_page">>, created_at |-> Nothing,
        metadata |-> Some(EmptyDict)]>>,
     <<[interaction_type |-> <<"view_page">>, metadata |-> Nothing]>>,
     <<[interaction_type |-> <<"view_page">>]>>,
     <<[interaction_type |-> <<"email_open">>, metadata |-> Nothing]>>,
     <<[metadata |-> Nothing]>>}

\* created_at: null, a datetime without offset, and the ISO strings
\* '2024-01-20T00:00:00' and '2024-01-20T00:00:00Z'
SparseCreatedAt ==
    {Nothing,
     Some(Datetime(20, FALSE)),
     Some([day |-> 20, aware |-> FALSE, iso |-> TRUE]),
     Some([day |-> 20, aware |-> TRUE, iso |-> TRUE])}

\* Lead dicts in which each optional field is given, null or missing; the
\* two list fields, when given, are lists.
SparseLeadPool ==
    {[full_name |-> <<"Lan">>, email |-> <<"Lan", "@", "mail.vn">>]
        @@ phone @@ source @@ created_at @@ interactions @@ interested_courses :
            phone \in Optional("phone", {None_, <<"0901">>}),
            source \in Optional("source", {None_, <<"website">>}),
            created_at \in Optional("created_at", SparseCreatedAt),
            interactions \in Optional("interactions", SparseInteractions),
            interested_courses \in
                Optional("interested_courses", {<< >>, << <<"advanced", "python">> >>})}

\* The scorer as constructed, a scorer whose load_model stopped after
\* self.model was set, a loaded scorer whose pickle held no model, and loaded
\* scorers whose prediction raises or yields a probability.
ScorerPool ==
    {Untrained,
     [is_trained |-> FALSE, model |-> TRUE, prediction |-> Some(Frac(9, 10))],
     [is_trained |-> TRUE, model |-> FALSE, prediction |-> Nothing],
     [is_trained |-> TRUE, model |-> TRUE, prediction |-> Nothing],
     [is_trained |-> TRUE, model |-> TRUE, prediction |-> Some(Frac(9, 10))],
     [is_trained |-> TRUE, model |-> TRUE, prediction |-> Some(FInt(0))]}

\* The outcome of a call of extract_features: the feature map, or the
\* exception it raises.
ExtractFeaturesCall(lead_data) ==
    IF ExtractFeaturesError(lead_data) /= << >>
    THEN [raises |-> ExtractFeaturesError(lead_data)]
    ELSE ExtractFeatures(lead_data)

InitLeadScore ==
    /\ IdleScore /\ IdleApi
    /\ fn_pc = "called"
    /\ fn_args \in
          {[fn |-> "extract_features", scorer |-> Untrained, lead_data |-> l] :
              l \in SparseLeadPool}
          \cup {[fn |-> "calculate_lead_score", scorer |-> s, lead_data |-> l] :
                  s \in ScorerPool, l \in SparseLeadPool}
    /\ fn_result = None_

CallExtractFeatures ==
    /\ fn_pc = "called"
    /\ fn_args.fn = "extract_features"
    /\ fn_result' = ExtractFeaturesCall(fn_args.lead_data)
    /\ fn_pc' = "returned"
    /\ UNCHANGED <<fn_args, scoreVars, apiVars>>

CallCalculateLeadScore ==
    /\ fn_pc = "called"
    /\ fn_args.fn = "calculate_lead_score"
    /\ fn_result' = CalculateLeadScore(fn_args.scorer, fn_args.lead_data)
    /\ fn_pc' = "returned"
    /\ UNCHANGED <<fn_args, scoreVars, apiVars>>

NextLeadScore == CallExtractFeatures \/ CallCalculateLeadScore

SpecLeadScore == InitLeadScore /\ [][NextLeadScore]_vars

\* _calculate_rule_based_score(features): feature maps whose engagement
\* features are drawn from a grid of [0, 1], each key given or missing
RuleSubdivision == 2

RuleGrid == {Frac(k, RuleSubdivision) : k \in 0..RuleSubdivision}

EngagementMaps ==
    {e1 @@ e2 @@ e3 @@ e4 :
        e1 \in Optional("email_engagement_score", RuleGrid),
        e2 \in Optional("website_activity_score", RuleGrid),
        e3 \in Optional("interaction_frequency", RuleGrid),
        e4 \in Optional("content_engagement_score", RuleGrid)}

DemographicMaps ==
    {d1 @@ d2 @@ d3 :
        d1 \in Optional("has_phone", {0, 1}),
        d2 \in Optional("source_encoded", {3, 4, 5}),
        d3 \in Optional("num_interested_courses", {0, 1})}

InitRule ==
    /\ IdleScore /\ IdleApi
    /\ fn_pc = "called"
    /\ fn_args \in {[fn |-> "_calculate_rule_based_score", features |-> e @@ d] :
                       e \in EngagementMaps, d \in DemographicMaps}
    /\ fn_result = None_

CallCalculateRuleBasedScore ==
    /\ fn_pc = "called"
    /\ fn_args.fn = "_calculate_rule_based_score"
    /\ fn_result' = CalculateRuleBasedScore(fn_args.features)
    /\ fn_pc' = "returned"
    /\ UNCHANGED <<fn_args, scoreVars, apiVars>>

NextRule == CallCalculateRuleBasedScore

SpecRule == InitRule /\ [][NextRule]_vars

(***************************************************************************)
(* The lead endpoints (api/lead_routes.py) and LeadScorer.batch_score_leads *)
(*                                                                         *)
(* response is [endpoint, request, status, body]: 200 with the returned    *)
(* model, or the status and detail of the HTTPException raised.  Elapsed   *)
(* wall-clock values (processing_time_ms) are left out of the bodies.      *)
(***************************************************************************)
Response(endpoint, request, status, body) ==
    [endpoint |-> endpoint, request |-> request, status |-> status, body |-> body]

\* response_data as score_lead and score_leads_batch build it from a result
ResponseData(lead_id, result, include_features, include_recommendations) ==
    (IF "error" \in DOMAIN result THEN [error |-> result.error] ELSE EmptyDict)
    @@ (IF include_recommendations
        THEN [recommendations |-> Get(result, "recommendations", << >>)]
        ELSE EmptyDict)
    @@ (IF include_features
        THEN [features |-> Get(result, "features", Nothing),
              ml_score |-> Get(result, "ml_score", Nothing),
              rule_based_score |-> Get(result, "rule_based_score", Nothing)]
        ELSE EmptyDict)
    @@ [lead_id |-> lead_id,
        lead_score |-> Get(result, "lead_score", FInt(0)),
        quality |-> Get(result, "quality", "medium"),
        scored_at |-> NowDatetime]

\* LeadScoreResponse(**response_data): the fields not given are None
LeadScoreResponse(response_data) ==
    [lead_id |-> response_data.lead_id,
     lead_score |-> response_data.lead_score,
     quality |-> response_data.quality,
     ml_score |-> Get(response_data, "ml_score", Nothing),
     rule_based_score |-> Get(response_data, "rule_based_score", Nothing),
     features |-> Get(response_data, "features", Nothing),
     recommendations |-> Get(response_data, "recommendations", None_),
     scored_at |-> response_data.scored_at,
     error |-> Get(response_data, "error", None_)]

\* lead_data.get('id') is truthy
IdTruthy(id) == id /= Nothing /\ id[1] /= 0

\* POST /leads/score
ScoreLeadRoute(lead_data, include_features, include_recommendations) ==
    LET score_result_ == calculate_lead_score[lead_data]
        response_data == ResponseData(lead_data.id, score_result_, include_features,
                                      include_recommendations)
    IN  /\ background_tasks' =
               IF IdTruthy(lead_data.id)
               THEN Append(background_tasks,
                           CacheTask("lead_score", lead_data.id[1], response_data))
               ELSE background_tasks
        /\ response' = Response("POST /leads/score",
                                [lead_data |-> lead_data,
                                 include_features |-> include_features,
                                 include_recommendations |-> include_recommendations],
                                200, LeadScoreResponse(response_data))
        /\ UNCHANGED <<redis_client, redis, scoreVars, fnVars>>

\* LeadScorer.batch_score_leads: the results and the store it leaves.  The
\* except branch of the loop body is not reached: calculate_lead_score catches
\* its own errors, and the cache texts are JSON.
\* the else branch of the loop body: the scored result is appended and cached
ScoreAndCache(score_result_, client, store, cache_key, redis_ok) ==
    [result |-> score_result_,
     store |-> CacheSet(client, store, cache_key, JsonDumps(score_result_), redis_ok)]

RECURSIVE BatchScoreLeads(_, _, _, _)
BatchScoreLeads(leads, client, store, redis_ok) ==
    IF leads = << >> THEN [results |-> << >>, store |-> store]
    ELSE LET lead == Head(leads)
             cache_key == "lead_score:"
                          \o (IF "id" \in DOMAIN lead THEN IdStr(lead.id) ELSE "unknown")
             cached_result == CacheGet(client, store, cache_key, redis_ok)
             step == IF cached_result /= Nothing
                     THEN [result |-> JsonLoads(cached_result[1]), store |-> store]
                     ELSE ScoreAndCache(Put(calculate_lead_score[lead], "lead_id",
                                            Get(lead, "id", Nothing)),
                                        client, store, cache_key, redis_ok)
             rest == BatchScoreLeads(Tail(leads), client, step.store, redis_ok)
         IN  [results |-> <<step.result>> \o rest.results, store |-> rest.store]

\* the counting loop of score_leads_batch over the results
RECURSIVE CountFailed(_)
CountFailed(results) ==
    IF results = << >> THEN 0
    ELSE (IF "error" \in DOMAIN Head(results) THEN 1 ELSE 0) + CountFailed(Tail(results))

\* POST /leads/score/batch.  LeadScoreResponse(**response_data) accepts every
\* result the cache can hold, so the inner except branch is not reached.
\* cache_error records what CacheManager logs and does not return: that the
\* client raised ("Cache get error", "Cache set error") during the request.
ScoreLeadsBatch(leads, include_features, include_recommendations, redis_ok) ==
    \E scored \in {BatchScoreLeads(leads, redis_client, redis, redis_ok)} :
        LET results == scored.results
            response_results ==
                [k \in 1..Len(results) |->
                    LeadScoreResponse(ResponseData(Get(results[k], "lead_id", Nothing),
                                                   results[k], include_features,
                                                   include_recommendations))]
            failed_scores == CountFailed(results)
            successful_scores == Len(results) - failed_scores
        IN  /\ redis' = scored.store
            /\ response' = Response("POST /leads/score/batch",
                                    [leads |-> leads,
                                     include_features |-> include_features,
                                     include_recommendations |-> include_recommendations],
                                    200,
                                    [results |-> response_results,
                                     total_leads |-> Len(leads),
                                     successful_scores |-> successful_scores,
                                     failed_scores |-> failed_scores])
                         @@ [cache_error |-> redis_client /\ ~redis_ok]
            /\ UNCHANGED <<redis_client, background_tasks, scoreVars, fnVars>>

\* PUT /leads/update-score
UpdateLeadScore(request) ==
    LET lead_data == UpdateLeadData(request)
        score_result_ == calculate_lead_score[lead_data]
    IN  /\ background_tasks' =
               Append(background_tasks,
                      CacheTask("lead_score", request.lead_id, score_result_))
        /\ response' = Response("PUT /leads/update-score", request, 200,
                                [lead_id |-> request.lead_id,
                                 updated_score |-> Get(score_result_, "lead_score", FInt(0)),
                                 quality |-> Get(score_result_, "quality", "medium"),
                                 updated_at |-> NowDatetime])
        /\ UNCHANGED <<redis_client, redis, scoreVars, fnVars>>

\* get_lead_interactions_from_db: the four interactions it returns for every
\* lead_id
MockInteractions ==
    <<Event(<<"page", "visit">>, <<"pricing">>, 45, << >>),
      Event(<<"page", "visit">>, <<"courses", "python", "advanced">>, 240,
            <<"Python", "advanced", "course", "details">>),
      Event(<<"form", "submission">>, <<"contact">>, 0,
            <<"Tooi", "quan", "taam", "ddeesn", "baos", "gias", "doanh", "nghieepj",
              "cho", "team", "20", "nguowif">>),
      Event(<<"chat">>, <<"chat">>, 0,
            <<"Chungs", "tooi", "muoons", "howpj", "tacs", "ddaof", "taoj", "soos",
              "luowngj", "lowns", "cho", "coong", "ty">>)>>

\* score_lead of the interactions get_lead_interactions_from_db returns,
\* evaluated once
score_lead_of_mock == ScoreLead(MockInteractions)

\* get_lead_interactions_from_db: what its two return statements give, the
\* mock interactions of the try block and the empty list of its except branch.
get_lead_interactions_from_db == {MockInteractions, << >>}

\* the no-interaction return with a call of update_lead_score_in_db before it
NoInteractionsResponseStoresZero(lead_id) ==
    Response("POST /leads/score-by-id", [lead_id |-> lead_id], 200,
             [lead_id |-> lead_id,
              lead_score |-> FInt(0),
              quality |-> "unqualified",
              needs_human_intervention |-> FALSE,
              interaction_details |-> << <<"No interactions found">> >>,
              total_interactions |-> 0,
              scored_at |-> StrOfDatetime(NowDatetime)])
    @@ [db_update |-> Some(FInt(0))]

\* score_lead_by_id, `if not interaction_data`: the response returned before
\* update_lead_score_in_db and background_tasks.add_task are reached
NoInteractionsResponse(lead_id) ==
    Response("POST /leads/score-by-id", [lead_id |-> lead_id], 200,
             [lead_id |-> lead_id,
              lead_score |-> FInt(0),
              quality |-> "unqualified",
              needs_human_intervention |-> FALSE,
              interaction_details |-> << <<"No interactions found">> >>,
              total_interactions |-> 0,
              scored_at |-> StrOfDatetime(NowDatetime)])
    @@ [db_update |-> Nothing]

\* POST /leads/score-by-id.  lead_id is a str; the number n stands for the
\* str of its digits, which f"lead_score:{lead_id}" renders as it renders n.
\* The integer lead_score is written as the number it is in JSON.
\* db_update records the call of update_lead_score_in_db, whose mock only
\* logs the score it is given.
ScoreLeadById(lead_id) ==
    \E interaction_data_ \in get_lead_interactions_from_db :
        IF interaction_data_ = << >>
        THEN /\ response' = NoInteractionsResponse(lead_id)
             /\ UNCHANGED <<background_tasks, redis_client, redis, scoreVars, fnVars>>
        ELSE \E result \in {score_lead_of_mock} :
                LET scoring_result ==
                        [k \in {"quality", "needs_human_intervention",
                                "interaction_details", "total_interactions"} |-> result[k]]
                        @@ [lead_score |-> FInt(result.lead_score),
                            scored_at |-> StrOfDatetime(NowDatetime)]
                IN  /\ background_tasks' =
                           Append(background_tasks,
                                  CacheTask("lead_score", lead_id, scoring_result))
                    /\ response' =
                           Response("POST /leads/score-by-id", [lead_id |-> lead_id], 200,
                                    [lead_id |-> lead_id] @@ scoring_result)
                           @@ [db_update |-> Some(scoring_result.lead_score)]
                    /\ UNCHANGED <<redis_client, redis, scoreVars, fnVars>>

\* Request bodies that the models LeadScoreRequest, BatchLeadScoreRequest and
\* LeadUpdateRequest do not accept: a lead without its email, an update
\* without its lead_id.
InvalidRequests ==
    {[endpoint |-> "POST /leads/score",
      request |-> [lead_data |-> [id |-> Some(1), full_name |-> <<"Lan">>]]],
     [endpoint |-> "POST /leads/score/batch",
      request |-> [leads |-> <<[id |-> Some(1), full_name |-> <<"Lan">>]>>]],
     [endpoint |-> "PUT /leads/update-score",
      request |-> [new_interactions |-> << >>]]}

\* The request body fails validation: 422 before the handler is entered.
RejectInvalid(invalid) ==
    /\ response' = Response(invalid.endpoint, invalid.request, 422,
                            [detail |-> "field required"])
    /\ UNCHANGED <<redis_client, redis, background_tasks, scoreVars, fnVars>>

\* A miss answered with a zero-valued score object instead of the 404.
GetLeadScoreZeroOnMiss(cached_result, include_features, include_recommendations) ==
    IF cached_result = Nothing
    THEN [status |-> 200, body |-> [lead_score |-> FInt(0), quality |-> "medium"]]
    ELSE [status |-> 200, body |-> JsonLoads(cached_result[1])]

\* get_lead_score after the cache read: the 404 of a miss, else the cached
\* result with the keys the query parameters exclude popped
GetLeadScoreOutcome(cached_result, include_features, include_recommendations) ==
    IF cached_result = Nothing
    THEN [status |-> 404, body |-> [detail |-> "Lead score not found in cache"]]
    ELSE [status |-> 200,
          body |-> Pop(JsonLoads(cached_result[1]),
                       (IF include_features THEN {}
                        ELSE {"features", "ml_score", "rule_based_score"})
                       \cup (IF include_recommendations THEN {}
                             ELSE {"recommendations"}))]

\* GET /leads/score/{lead_id}
GetLeadScore(lead_id, include_features, include_recommendations, redis_ok) ==
    LET cache_key == "lead_score:" \o ToString(lead_id)
        cached_result == CacheGet(redis_client, redis, cache_key, redis_ok)
        outcome == GetLeadScoreOutcome(cached_result, include_features,
                                       include_recommendations)
    IN  /\ response' = Response("GET /leads/score", 
                                [lead_id |-> lead_id,
                                 include_features |-> include_features,
                                 include_recommendations |-> include_recommendations],
                                outcome.status, outcome.body)
        /\ UNCHANGED <<redis_client, redis, background_tasks, scoreVars, fnVars>>

(***************************************************************************)
(* The reads of the other two domains: recommend-candidates                *)
(* (api/enterprise_routes.py) and learning-path (api/student_routes.py)    *)
(***************************************************************************)
\* POST /enterprise/parse-jd: jd_parser.parse_job_description takes no
\* include_sentiment argument, so the call raises TypeError and the handler
\* ends in its except branch before cache_jd_parse is scheduled.
ParseJobDescriptionRoute(jd_id) ==
    /\ response' = Response("POST /enterprise/parse-jd", [jd_id |-> jd_id], 500,
                            [detail |-> "Error parsing JD: parse_job_description() got an unexpected keyword argument 'include_sentiment'"])
    /\ UNCHANGED <<redis_client, redis, background_tasks, scoreVars, fnVars>>

\* recommend_candidates (the endpoint) after the cache read: the 404 of a
\* miss; on a hit candidate_recommender has no recommend_candidates_for_jd,
\* the AttributeError is caught and reported as 500
RecommendCandidatesOutcome(cached_jd) ==
    IF cached_jd = Nothing
    THEN [status |-> 404,
          body |-> [detail |-> "Job description not found. Please parse the JD first."]]
    ELSE [status |-> 500,
          body |-> [detail |-> "Error recommending candidates: 'CandidateRecommender' object has no attribute 'recommend_candidates_for_jd'"]]

\* POST /enterprise/recommend-candidates
RecommendCandidatesRoute(jd_id, redis_ok) ==
    LET cache_key == "jd_parse:" \o ToString(jd_id)
        cached_jd == CacheGet(redis_client, redis, cache_key, redis_ok)
        outcome == RecommendCandidatesOutcome(cached_jd)
    IN  /\ response' = Response("POST /enterprise/recommend-candidates",
                                [jd_id |-> jd_id], outcome.status, outcome.body)
        /\ UNCHANGED <<redis_client, redis, background_tasks, scoreVars, fnVars>>

\* CompetencyAnalyzer.batch_analyze_competencies for one student: the cached
\* text is kept when there is one, else the analysis is stored.  The analysis
\* itself (features, predictions, learning score and profile) is the input
\* analysis_result; the features and competency_predictions it carries are
\* left out.
BatchAnalyzeCompetencies(analysis_result, redis_ok) ==
    LET cache_key == "competency_analysis:" \o ToString(analysis_result.student_id)
        cached_result == CacheGet(redis_client, redis, cache_key, redis_ok)
    IN  /\ redis' = IF cached_result /= Nothing THEN redis
                    ELSE CacheSet(redis_client, redis, cache_key,
                                  JsonDumps(analysis_result), redis_ok)
        /\ UNCHANGED <<redis_client, background_tasks, response, scoreVars, fnVars>>

\* generate_personalized_path.  An f-string is the sequence of its pieces.
GeneratePersonalizedPath(current_competencies, target_competencies, learning_profile, time_horizon, difficulty_preference) ==
    LET n == Len(target_competencies)
        estimated_weeks == IF time_horizon \div n > 2 THEN time_horizon \div n ELSE 2
        step(i) ==
            [step |-> i,
             competency |-> target_competencies[i],
             estimated_weeks |-> estimated_weeks,
             difficulty |-> IF difficulty_preference /= "adaptive"
                            THEN difficulty_preference ELSE "intermediate",
             resources |-> << <<"Course:", target_competencies[i], "Fundamentals">>,
                              <<"Practice:", target_competencies[i], "Projects">> >>,
             prerequisites |-> SubSeq(target_competencies, 1, i - 1)]
        \* the milestone appended at step 3*m
        milestone(m) ==
            [milestone |-> <<"Milestone", m>>,
             week |-> estimated_weeks * (3 * m),
             competencies_achieved |-> SubSeq(target_competencies, 1, 3 * m),
             assessment |-> <<"Assessment", "for">>
                            \o SubSeq(target_competencies, 3 * m - 2, 3 * m)]
    IN  [path |-> [i \in 1..n |-> step(i)],
         duration |-> time_horizon,
         difficulty |-> difficulty_preference,
         milestones |-> [m \in 1..(n \div 3) |-> milestone(m)]]

profile_multipliers ==
    [visual |-> Frac(110, 100), analytical |-> Frac(105, 100), hands_on |-> FInt(1),
     balanced |-> Frac(115, 100)]

\* calculate_success_probability
CalculateSuccessProbability(overall_score, learning_profile, num_targets, time_horizon) ==
    LET base_probability == FMin(FMul(overall_score, Frac(1, 100)), Frac(9, 10))
        profile_factor == Get(profile_multipliers, learning_profile, FInt(1))
        complexity_factor == FMax(Frac(1, 2), Frac(10 - (num_targets - 3), 10))
        time_factor == FMin(Frac(12, 10), Frac(time_horizon, 12))
        final_probability ==
            FMul(FMul(FMul(base_probability, profile_factor), complexity_factor),
                 time_factor)
    IN  RoundTo(FMin(final_probability, Frac(95, 100)), 1000)

\* generate_learning_path after the cache read: the 404 of a miss, else the
\* response_data built from the cached analysis
GenerateLearningPathOutcome(cached_analysis, request) ==
    IF cached_analysis = Nothing
    THEN [status |-> 404,
          body |-> [detail |-> "Student competency analysis not found. Please analyze competencies first."]]
    ELSE LET analysis_data == JsonLoads(cached_analysis[1])
             learning_path ==
                 GeneratePersonalizedPath(Get(analysis_data, "competency_gaps", << >>),
                                          request.target_competencies,
                                          Get(analysis_data, "learning_profile", "balanced"),
                                          request.time_horizon_weeks,
                                          request.difficulty_preference)
             success_probability ==
                 CalculateSuccessProbability(Get(analysis_data, "overall_score", FInt(0)),
                                             Get(analysis_data, "learning_profile", "balanced"),
                                             Len(request.target_competencies),
                                             request.time_horizon_weeks)
         IN  [status |-> 200,
              body |-> [student_id |-> request.student_id,
                        learning_path |-> learning_path.path,
                        estimated_duration_weeks |-> learning_path.duration,
                        difficulty_level |-> learning_path.difficulty,
                        success_probability |-> success_probability,
                        milestones |-> learning_path.milestones,
                        generated_at |-> NowDatetime]]

\* POST /students/learning-path
GenerateLearningPath(request, redis_ok) ==
    LET cache_key == "competency_analysis:" \o ToString(request.student_id)
        cached_analysis == CacheGet(redis_client, redis, cache_key, redis_ok)
        outcome == GenerateLearningPathOutcome(cached_analysis, request)
    IN  /\ outcome.status = 200 => Len(background_tasks) < MaxPending
        /\ background_tasks' =
               IF outcome.status = 200
               THEN Append(background_tasks,
                           CacheTask("learning_path", request.student_id, outcome.body))
               ELSE background_tasks
        /\ response' = Response("POST /students/learning-path", request,
                                outcome.status, outcome.body)
        /\ UNCHANGED <<redis_client, redis, scoreVars, fnVars>>

(***************************************************************************)
(* The lead service: its four scoring and reading endpoints over the cache *)
(***************************************************************************)
\* fewer than n deferred writes are waiting to run
PendingBelow(n) == Len(background_tasks) < n

InitApi ==
    /\ IdleScore /\ IdleApi
    /\ fn_pc = "idle" /\ fn_args = None_ /\ fn_result = None_

NextApi ==
    \/ InitCacheManager
    \/ Expire
    \/ RunBackgroundTask
    \/ \E lead_data \in LeadPool : \E flags \in FlagPairs :
           /\ IdTruthy(lead_data.id) => PendingBelow(MaxPending)
           /\ ScoreLeadRoute(lead_data, flags[1], flags[2])
    \/ \E leads \in SeqsUpTo(LeadPool, MaxBatch) : \E flags \in BatchFlags :
           \E redis_ok \in BOOLEAN :
               ScoreLeadsBatch(leads, flags[1], flags[2], redis_ok)
    \/ \E request \in UpdatePool :
           PendingBelow(MaxPending) /\ UpdateLeadScore(request)
    \/ \E lead_id \in ByIdLeadIds :
           PendingBelow(MaxPending) /\ ScoreLeadById(lead_id)
    \/ \E invalid \in InvalidRequests : RejectInvalid(invalid)
    \/ \E lead_id \in ReadLeadIds : \E flags \in FlagPairs : \E redis_ok \in BOOLEAN :
           GetLeadScore(lead_id, flags[1], flags[2], redis_ok)

SpecApi == InitApi /\ [][NextApi]_vars

(***************************************************************************)
(* Concurrent scoring of one lead: the handlers of score, update-score and *)
(* score-by-id run to their return without suspending, and their deferred  *)
(* writes run later in any order.                                          *)
(***************************************************************************)
\* requests whose deferred write has not run yet
MaxConcurrent == 2

\* the leads of LeadPool that carry the id 1
ConcurrentLeads == {lead_data \in LeadPool : lead_data.id = Some(1)}

NextConcurrent ==
    \/ InitCacheManager
    \/ RunBackgroundTask
    \/ \E lead_data \in ConcurrentLeads : \E flags \in FlagPairs :
           PendingBelow(MaxConcurrent) /\ ScoreLeadRoute(lead_data, flags[1], flags[2])
    \/ \E request \in UpdatePool :
           PendingBelow(MaxConcurrent) /\ UpdateLeadScore(request)
    \/ \E lead_id \in ByIdLeadIds :
           PendingBelow(MaxConcurrent) /\ ScoreLeadById(lead_id)

SpecConcurrent == InitApi /\ [][NextConcurrent]_vars

(***************************************************************************)
(* The endpoints that answer from a cached result, one per domain, with    *)
(* the operations that store what they read                                *)
(***************************************************************************)
JdIds == {1}

\* what batch_analyze_competencies computed for student 1
AnalysisPool ==
    {[student_id |-> 1, overall_learning_score |-> Frac(62, 100),
      learning_profile |-> "steady_learner",
      analyzed_at |-> [day |-> Now, aware |-> FALSE, iso |-> TRUE]]}

\* LearningPathRequest: student 2 is never analyzed
LearningPathPool ==
    {[student_id |-> 1, target_competencies |-> <<"python", "sql", "git">>,
      time_horizon_weeks |-> 12, difficulty_preference |-> "adaptive"],
     [student_id |-> 2, target_competencies |-> <<"python">>,
      time_horizon_weeks |-> 12, difficulty_preference |-> "beginner"]}

NextRead ==
    \/ InitCacheManager
    \/ Expire
    \/ RunBackgroundTask
    \/ \E lead_data \in LeadPool : \E flags \in FlagPairs :
           /\ IdTruthy(lead_data.id) => PendingBelow(MaxPending)
           /\ ScoreLeadRoute(lead_data, flags[1], flags[2])
    \/ \E lead_id \in ReadLeadIds : \E flags \in FlagPairs : \E redis_ok \in BOOLEAN :
           GetLeadScore(lead_id, flags[1], flags[2], redis_ok)
    \/ \E jd_id \in JdIds : ParseJobDescriptionRoute(jd_id)
    \/ \E jd_id \in JdIds : \E redis_ok \in BOOLEAN :
           RecommendCandidatesRoute(jd_id, redis_ok)
    \/ \E analysis_result \in AnalysisPool : \E redis_ok \in BOOLEAN :
           BatchAnalyzeCompetencies(analysis_result, redis_ok)
    \/ \E request \in LearningPathPool : \E redis_ok \in BOOLEAN :
           GenerateLearningPath(request, redis_ok)

SpecRead == InitApi /\ [][NextRead]_vars

(***************************************************************************)
(* Properties                                                              *)
(***************************************************************************)
\* The points a trace line names: n for "text (+n)", none for a line without.
PointsNamed(line) == IF Len(line) = 2 THEN line[2] ELSE 0

TracePoints(details) == SumSeq([i \in 1..Len(details) |-> PointsNamed(details[i])])

\* A chat/message interaction whose content matches a negative keyword or pattern.
TriggersNegative(e) ==
    /\ e.type \in {<<"chat">>, <<"message">>}
    /\ e.content /= None_ /\ e.content /= << >>
    /\ \/ \E k \in 1..Len(negative_keywords) : Contains(Lower(e.content), negative_keywords[k])
       \/ NegativePatternMatches(Lower(e.content))

\* C1: whatever list score_lead is given, the lead_score it returns is
\* non-negative and is the sum of the point values its interaction_details
\* lines name (+10, +15, +20 and each NLP analysis (+n)).
C1_ScoreIsTraceSum ==
    score_pc = "returned" =>
        /\ score_result.lead_score >= 0
        /\ score_result.lead_score = TracePoints(score_result.interaction_details)

\* A call returned points from a fixed rule and from an NLP line, next to a
\* negative-sentiment line that names no points.
C1_Witness ==
    /\ score_pc = "returned"
    /\ score_result.error = None_
    /\ score_result.lead_score > 30
    /\ \E i, j, k \in 1..Len(score_result.interaction_details) :
          /\ score_result.interaction_details[i] = <<"Visited pricing page", 10>>
          /\ Len(score_result.interaction_details[j]) = 1
          /\ score_result.interaction_details[k][1] = "NLP analysis"

\* C2: _determine_lead_quality maps a score of the 0-100 scale to hot from 80,
\* warm from 60 to below 80, medium from 40 to below 60, cold from 20 to below
\* 40 and very_cold below 20; 19/20, 39/40, 59/60 and 79/80 fall in adjacent
\* tiers, the lower bound inclusive.
C2_QualityTable ==
    (fn_pc = "returned" /\ fn_args.fn = "_determine_lead_quality") =>
        LET n == fn_args.score[1]
            d == fn_args.score[2]
        IN  /\ (n >= 80 * d) => fn_result = "hot"
            /\ (60 * d <= n /\ n < 80 * d) => fn_result = "warm"
            /\ (40 * d <= n /\ n < 60 * d) => fn_result = "medium"
            /\ (20 * d <= n /\ n < 40 * d) => fn_result = "cold"
            /\ (n < 20 * d) => fn_result = "very_cold"
            /\ fn_args.score = <<19, 1>> => fn_result = "very_cold"
            /\ fn_args.score = <<20, 1>> => fn_result = "cold"
            /\ fn_args.score = <<39, 1>> => fn_result = "cold"
            /\ fn_args.score = <<40, 1>> => fn_result = "medium"
            /\ fn_args.score = <<59, 1>> => fn_result = "medium"
            /\ fn_args.score = <<60, 1>> => fn_result = "warm"
            /\ fn_args.score = <<79, 1>> => fn_result = "warm"
            /\ fn_args.score = <<80, 1>> => fn_result = "hot"

\* The score 80 itself was mapped, and came out hot.
C2_Witness ==
    /\ fn_pc = "returned" /\ fn_args.fn = "_determine_lead_quality"
    /\ fn_args.score = <<80, 1>>
    /\ fn_result = "hot"

\* C3: for ml_score and rule_based_score in [0,1] the final score of
\* calculate_lead_score is clamp(ml_score*0.7 + rule_based_score*0.3, 0, 1)*100,
\* so blend(1,1) = 100, blend(0,0) = 0 and blend(0.5,0.5) = 50, and the quality
\* reported is the tier of that final score.
C3_Blend ==
    (fn_pc = "returned" /\ fn_args.fn = "calculate_lead_score") =>
        LET a == fn_args.ml_score[1]
            b == fn_args.ml_score[2]
            c == fn_args.rule_based_score[1]
            d == fn_args.rule_based_score[2]
            \* ml*0.7 + rule*0.3 = num / den
            num == 7 * a * d + 3 * c * b
            den == 10 * b * d
            clamped == IF num < 0 THEN <<0, 1>> ELSE IF num > den THEN <<1, 1>> ELSE <<num, den>>
            f == fn_result.final_score
        IN  /\ f[1] * clamped[2] = 100 * clamped[1] * f[2]
            /\ (a = b /\ c = d) => f = <<100, 1>>
            /\ (a = 0 /\ c = 0) => f = <<0, 1>>
            /\ (2 * a = b /\ 2 * c = d) => f = <<50, 1>>
            /\ fn_result.quality =
                  (IF f[1] >= 80 * f[2] THEN "hot"
                   ELSE IF f[1] >= 60 * f[2] THEN "warm"
                   ELSE IF f[1] >= 40 * f[2] THEN "medium"
                   ELSE IF f[1] >= 20 * f[2] THEN "cold"
                   ELSE "very_cold")

\* The two scores differ and the blend came out at a tier boundary: 0.9 and
\* 0.1 give 66, not the 34 of the exchanged weights.
C3_Witness ==
    /\ fn_pc = "returned" /\ fn_args.fn = "calculate_lead_score"
    /\ fn_args.ml_score = <<9, 10>>
    /\ fn_args.rule_based_score = <<1, 10>>
    /\ fn_result.final_score = <<66, 1>>
    /\ fn_result.quality = "warm"

\* C9: a message with one or more enterprise keywords receives exactly +30 for
\* enterprise intent, however many of them it contains: its score is 30 plus 5
\* for each positive keyword in it.
C9_EnterpriseOnce ==
    (fn_pc = "returned" /\ fn_args.fn = "_analyze_content_nlp") =>
        LET cl == Lower(fn_args.content)
            ent == {k \in 1..Len(enterprise_keywords) : Contains(cl, enterprise_keywords[k])}
            pos == {k \in 1..Len(positive_keywords) : Contains(cl, positive_keywords[k])}
        IN  ent /= {} => fn_result[1] = 30 + 5 * Cardinality(pos)

\* A message with three enterprise keywords (enterprise, enterprise solution,
\* corporate) scored 30.
C9_Witness ==
    /\ fn_pc = "returned" /\ fn_args.fn = "_analyze_content_nlp"
    /\ fn_args.content = <<"Enterprise", "solution", "corporate">>
    /\ fn_result[1] = 30

\* C10 as stated: the flag returned is true exactly when a processed event
\* triggered a negative-sentiment match.
C10_FlagIffNegativeMatch ==
    score_pc = "returned" =>
        (score_result.needs_human_intervention <=>
            \E i \in 1..idx : TriggersNegative(interaction_data[i]))

C10_FlagInvariant ==
    /\ (score_pc = "loop" /\ idx = 0) => ~needs_human_intervention
    /\ score_pc \in {"loop", "returned"} =>
          (needs_human_intervention <=>
              \E i \in 1..idx : TriggersNegative(interaction_data[i]))
    /\ score_pc = "returned" =>
          (score_result.needs_human_intervention <=>
              \/ \E i \in 1..idx : TriggersNegative(interaction_data[i])
              \/ score_result.error /= None_)

\* C10, amended: while score_lead processes its list the flag starts false,
\* is true from the first chat/message event whose content matches a negative
\* keyword or pattern, and no later event resets it; the flag returned is true
\* exactly when a processed event triggered a negative match or the call
\* ended in its error result, which always carries the flag true.
C10_FlagMonotonic ==
    /\ []C10_FlagInvariant
    /\ [][needs_human_intervention => needs_human_intervention']_vars

\* A negative message was followed by an analysed message without a negative
\* match, and the call returned the flag true.
C10_Witness ==
    /\ score_pc = "returned"
    /\ score_result.error = None_
    /\ score_result.needs_human_intervention
    /\ \E i, j \in 1..idx :
          /\ i < j
          /\ TriggersNegative(interaction_data[i])
          /\ IsChatWithContent(interaction_data[j])
          /\ ~TriggersNegative(interaction_data[j])

\* The place of a level in entry_level < junior < mid_level < senior < executive;
\* a level outside the list counts as mid_level.
LevelRank(level) ==
    LET order == <<"entry_level", "junior", "mid_level", "senior", "executive">>
    IN  IF \E i \in 1..5 : order[i] = level
        THEN CHOOSE i \in 1..5 : order[i] = level
        ELSE 3

StepOf(distance) ==
    IF distance = 0 THEN 100
    ELSE IF distance = 1 THEN 75
    ELSE IF distance = 2 THEN 50
    ELSE 25

\* C4 as stated: the score of calculate_experience_match is the step function
\* 100/75/50/25 of the absolute distance between the candidate's level and the
\* required level, also for a candidate above the required level.
C4_AbsoluteDistance ==
    (fn_pc = "returned" /\ fn_args.fn = "calculate_experience_match") =>
        fn_result.score =
            StepOf(Abs(LevelRank(fn_result.candidate_level)
                       - LevelRank(fn_args.required_experience)))

\* C4, amended: the score is the step function of the candidate's shortfall,
\* the number of levels the candidate is below the required level: none (the
\* candidate at or above the required level) gives 100, one gives 75, two give
\* 50, three or more give 25; an unrecognized required level counts as
\* mid_level.
C4_ShortfallStep ==
    (fn_pc = "returned" /\ fn_args.fn = "calculate_experience_match") =>
        LET c == LevelRank(fn_result.candidate_level)
            r == LevelRank(fn_args.required_experience)
        IN  fn_result.score = StepOf(IF c >= r THEN 0 ELSE r - c)

\* A senior candidate was matched with an entry_level requirement, three
\* levels below, and scored 100.
C4_Witness ==
    /\ fn_pc = "returned" /\ fn_args.fn = "calculate_experience_match"
    /\ fn_result.candidate_level = "senior"
    /\ fn_args.required_experience = "entry_level"
    /\ fn_result.score = 100

\* The position in the input list of the candidate a recommendation is for.
InputPosition(rec) ==
    CHOOSE i \in 1..Len(fn_args.candidates) : fn_args.candidates[i].id = rec.candidate_id

\* C5: recommend_candidates returns the candidates in non-increasing order of
\* overall_score, and two returned candidates of the same overall_score stand
\* in the order they had in the input list.
C5_StableDescending ==
    (fn_pc = "returned" /\ fn_args.fn = "recommend_candidates") =>
        \A i, j \in 1..Len(fn_result) :
            i < j =>
                /\ FGe(fn_result[i].overall_score, fn_result[j].overall_score)
                /\ fn_result[i].overall_score = fn_result[j].overall_score =>
                      InputPosition(fn_result[i]) < InputPosition(fn_result[j])

\* Two candidates of equal score were returned behind a better candidate that
\* stood after them in the input.
C5_Witness ==
    /\ fn_pc = "returned" /\ fn_args.fn = "recommend_candidates"
    /\ Len(fn_result) = 3
    /\ fn_result[2].overall_score = fn_result[3].overall_score
    /\ fn_result[1].overall_score /= fn_result[2].overall_score
    /\ InputPosition(fn_result[1]) = 3
    /\ InputPosition(fn_result[2]) = 1

\* C6: for top_k <= 0 and any candidate pool recommend_candidates returns an
\* empty list (and does not raise).
C6_EmptyForNonPositiveTopK ==
    (fn_pc = "returned" /\ fn_args.fn = "recommend_candidates" /\ fn_args.top_k <= 0) =>
        fn_result = << >>

\* The positions of a batch response whose entry carries a non-null error.
ErrorEntries(results) == {k \in 1..Len(results) : results[k].error /= None_}

MalformedLeads(leads) == {k \in 1..Len(leads) : IsMalformed(leads[k])}

\* C7: every batch response has as many result entries as the request has
\* leads, total_leads is that number and successful_scores + failed_scores
\* equals it; and when exactly one lead of the request is malformed, exactly
\* one entry carries a non-null error.
C7_OneErrorPerMalformedLead ==
    (response.endpoint = "POST /leads/score/batch" /\ response.status = 200) =>
        LET leads == response.request.leads
            body == response.body
        IN  /\ Len(body.results) = Len(leads)
            /\ body.total_leads = Len(leads)
            /\ body.successful_scores + body.failed_scores = Len(leads)
            /\ Cardinality(MalformedLeads(leads)) = 1
                   => Cardinality(ErrorEntries(body.results)) = 1

\* The endpoints that answer from a cached result, and the key each reads.
IsCachedRead(resp) ==
    resp.endpoint \in {"GET /leads/score", "POST /enterprise/recommend-candidates",
                       "POST /students/learning-path"}

ReadKey(resp) ==
    CASE resp.endpoint = "GET /leads/score" ->
             "lead_score:" \o ToString(resp.request.lead_id)
      [] resp.endpoint = "POST /enterprise/recommend-candidates" ->
             "jd_parse:" \o ToString(resp.request.jd_id)
      [] resp.endpoint = "POST /students/learning-path" ->
             "competency_analysis:" \o ToString(resp.request.student_id)

\* The 404 outcome: a detail message and nothing else, no score of any value.
IsNotFound(resp) == resp.status = 404 /\ DOMAIN resp.body = {"detail"}

\* C8: a step in which one of the cached-read endpoints (GET /leads/score/{id},
\* recommend-candidates, learning-path) answers while the key it reads is
\* absent from the cache ends in the 404 outcome, never in a score object.
\* Such a step leaves the store and the client alone and runs no deferred task.
C8_MissIsNotFound ==
    [][(/\ redis' = redis /\ redis_client' = redis_client
        /\ Len(background_tasks') >= Len(background_tasks)
        /\ IsCachedRead(response')
        /\ ReadKey(response') \notin DOMAIN redis)
       => IsNotFound(response')]_vars

\* The score of lead 2 is asked for while the working cache holds the score of
\* lead 1 and nothing under the key of lead 2, and the answer is the 404.
C8_Witness ==
    /\ response.endpoint = "GET /leads/score" /\ response.request.lead_id = 2
    /\ redis_client /\ "lead_score:1" \in DOMAIN redis
    /\ ReadKey(response) \notin DOMAIN redis
    /\ IsNotFound(response)

\* C11: calculate_skill_match_score called with an empty required-skill list
\* returns the score 0 with empty matched and missing lists, and nothing
\* else (no error), whatever the competency vector holds.
C11_EmptyRequiredSkills ==
    (fn_pc = "returned" /\ fn_args.fn = "calculate_skill_match_score"
        /\ fn_args.required_skills = << >>) =>
        /\ DOMAIN fn_result = {"score", "matched_skills", "missing_skills"}
        /\ fn_result.score = FInt(0)
        /\ fn_result.matched_skills = << >>
        /\ fn_result.missing_skills = << >>

\* The call with no required skill returned, for a vector of three skills.
C11_Witness ==
    /\ fn_pc = "returned" /\ fn_args.fn = "calculate_skill_match_score"
    /\ fn_args.required_skills = << >>
    /\ Cardinality(DOMAIN fn_args.candidate_competencies) = 3
    /\ fn_result.score = FInt(0)

\* The two inputs of the formula, recomputed from the arguments: the fraction
\* of the required skills present in the vector, and the mean score of the
\* matched ones (0 when none matches).
MatchRateOf(candidate_competencies, required_skills) ==
    Frac(Cardinality({i \in 1..Len(required_skills) :
                        NormalizeName(required_skills[i]) \in DOMAIN candidate_competencies}),
         Len(required_skills))

RECURSIVE MatchedTotal(_, _)
MatchedTotal(candidate_competencies, required_skills) ==
    IF required_skills = << >> THEN 0
    ELSE (IF NormalizeName(Head(required_skills)) \in DOMAIN candidate_competencies
          THEN candidate_competencies[NormalizeName(Head(required_skills))]
          ELSE 0)
         + MatchedTotal(candidate_competencies, Tail(required_skills))

AvgMatchedOf(candidate_competencies, required_skills) ==
    LET n == Cardinality({i \in 1..Len(required_skills) :
                            NormalizeName(required_skills[i]) \in DOMAIN candidate_competencies})
    IN  IF n = 0 THEN FInt(0)
        ELSE Frac(MatchedTotal(candidate_competencies, required_skills), n)

SkillFormula(candidate_competencies, required_skills) ==
    FMul(FAdd(FMul(MatchRateOf(candidate_competencies, required_skills), Frac(6, 10)),
              FMul(FMul(AvgMatchedOf(candidate_competencies, required_skills),
                        Frac(1, 100)), Frac(4, 10))),
         FInt(100))

\* C12 as stated: for a non-empty required-skill list the returned score is
\* (match_rate*0.6 + avg_matched_score/100*0.4)*100 itself.
C12_ExactFormula ==
    (fn_pc = "returned" /\ fn_args.fn = "calculate_skill_match_score"
        /\ fn_args.required_skills # << >>) =>
        fn_result.score = SkillFormula(fn_args.candidate_competencies,
                                       fn_args.required_skills)

\* C12, amended: for a non-empty required-skill list the returned score is
\* (match_rate*0.6 + avg_matched_score/100*0.4)*100 rounded to two decimal
\* places, match_rate being the fraction of the required skills present in
\* the vector and avg_matched_score the mean score of the matched ones (0
\* when none matches); the vector {python: 90} against [Python, SQL] gives 66.
C12_RoundedFormula ==
    /\ (fn_pc = "returned" /\ fn_args.fn = "calculate_skill_match_score"
          /\ fn_args.required_skills # << >>) =>
          fn_result.score = Round2(SkillFormula(fn_args.candidate_competencies,
                                                fn_args.required_skills))
    /\ (fn_pc = "returned" /\ fn_args.fn = "calculate_skill_match_score"
          /\ fn_args.candidate_competencies = [k \in {"python"} |-> 90]
          /\ fn_args.required_skills = <<<<"Python">>, <<"SQL">>>>) =>
          fn_result.score = FInt(66)

\* Three required skills all matched, with scores 90, 80 and 81: the formula
\* gives 93.4666..., the call returned 93.47.
C12_Witness ==
    /\ fn_pc = "returned" /\ fn_args.fn = "calculate_skill_match_score"
    /\ fn_args.candidate_competencies =
          [k \in {"python", "sql", "machine_learning"} |->
              IF k = "python" THEN 90 ELSE IF k = "sql" THEN 80 ELSE 81]
    /\ fn_args.required_skills = <<<<"Python">>, <<"SQL">>, <<"Machine", "Learning">>>>
    /\ fn_result.score = Frac(9347, 100)
    /\ SkillFormula(fn_args.candidate_competencies, fn_args.required_skills)
          = Frac(1402, 15)


\* The three events of the example: a visit of the pricing page, a visit of
\* a Python page that lasted 240 seconds, and a submitted form, each of them
\* meeting its own rule only and none of them a chat or a message.
PricingVisit(e) ==
    /\ ~EventRaises(e) /\ IsPricingPage(e)
    /\ ~(MentionsPython(e) /\ e.duration > 180) /\ ~IsContactForm(e)
    /\ e.type \notin {<<"chat">>, <<"message">>}

PythonPage240(e) ==
    /\ ~EventRaises(e) /\ Contains(Lower(e.page_url), <<"python">>) /\ e.duration = 240
    /\ ~IsPricingPage(e) /\ ~IsContactForm(e)
    /\ e.type \notin {<<"chat">>, <<"message">>}

FormSubmission(e) ==
    /\ ~EventRaises(e) /\ e.type = <<"form", "submission">>
    /\ ~IsPricingPage(e) /\ ~(MentionsPython(e) /\ e.duration > 180)

\* C13: score_lead applied to the three events [pricing page visit, Python
\* page with duration 240, form submission] returns lead_score 45 and the
\* quality medium.
C13_ExampleScores45 ==
    (/\ score_pc = "returned"
     /\ Len(interaction_data) = 3
     /\ PricingVisit(interaction_data[1])
     /\ PythonPage240(interaction_data[2])
     /\ FormSubmission(interaction_data[3])) =>
        /\ score_result.lead_score = 45
        /\ score_result.quality = "medium"
        /\ score_result.error = None_

\* The call on the example's three events returned, with the three trace
\* lines of its rules.
C13_Witness ==
    /\ score_pc = "returned"
    /\ interaction_data =
          <<Event(<<"page", "visit">>, <<"pricing">>, 45, << >>),
            Event(<<"page", "visit">>, <<"courses", "python">>, 240, << >>),
            Event(<<"form", "submission">>, <<"contact">>, 0, <<"enterprise">>)>>
    /\ score_result.lead_score = 45
    /\ Len(score_result.interaction_details) = 3

\* The ML score falls back: no trained model is loaded, or the loaded
\* model's prediction step fails.
MlFallsBack(scorer) ==
    \/ ~scorer.is_trained
    \/ ~scorer.model
    \/ scorer.prediction = Nothing

\* C14: whenever no trained model is loaded or the loaded model's prediction
\* fails, calculate_lead_score returns a result computed with the ML score
\* 0.5 (reported as ml_score 50, blended 70/30 with the rule-based score),
\* and that result carries no error field.
C14_MlFallback ==
    (/\ fn_pc = "returned" /\ fn_args.fn = "calculate_lead_score"
     /\ MlFallsBack(fn_args.scorer)
     /\ ~IsMalformed(fn_args.lead_data)) =>
        /\ "error" \notin DOMAIN fn_result
        /\ fn_result.ml_score = FInt(50)
        /\ fn_result.lead_score =
              Round2(FinalScore(Frac(1, 2),
                                CalculateRuleBasedScore(ExtractFeatures(fn_args.lead_data))))

\* A loaded scorer whose prediction raised scored a lead with a phone, the
\* source website and a premium course: ml_score 50 and no error.
C14_Witness ==
    /\ fn_pc = "returned" /\ fn_args.fn = "calculate_lead_score"
    /\ fn_args.scorer = [is_trained |-> TRUE, model |-> TRUE, prediction |-> Nothing]
    /\ "phone" \in DOMAIN fn_args.lead_data /\ fn_args.lead_data.phone = <<"0901">>
    /\ "source" \in DOMAIN fn_args.lead_data /\ fn_args.lead_data.source = <<"website">>
    /\ "error" \notin DOMAIN fn_result
    /\ fn_result.ml_score = FInt(50)
    /\ fn_result.rule_based_score # FInt(0)

\* C18: extract_features is total on lead dicts whose optional fields are
\* given, null or missing and whose created_at is an ISO string with or
\* without a 'Z' suffix: every call returns a feature map and none raises.
C18_ExtractFeaturesTotal ==
    (fn_pc = "returned" /\ fn_args.fn = "extract_features") =>
        /\ "raises" \notin DOMAIN fn_result
        /\ DOMAIN fn_result = DOMAIN ExtractFeatures([full_name |-> <<"Lan">>])

\* What each scoring entry point answers from the data of its request alone:
\* the result of calculate_lead_score (score_lead for score-by-id, on the
\* interactions found for the lead) on that data, shaped as the endpoint
\* shapes it.
FreshResult(lead) == Put(calculate_lead_score[lead], "lead_id", Get(lead, "id", Nothing))

FreshBody(resp) ==
    IF resp.endpoint = "POST /leads/score"
    THEN LeadScoreResponse(ResponseData(resp.request.lead_data.id,
                                        calculate_lead_score[resp.request.lead_data],
                                        resp.request.include_features,
                                        resp.request.include_recommendations))
    ELSE IF resp.endpoint = "PUT /leads/update-score"
    THEN LET r == calculate_lead_score[UpdateLeadData(resp.request)]
         IN  [lead_id |-> resp.request.lead_id,
              updated_score |-> r.lead_score, quality |-> r.quality,
              updated_at |-> NowDatetime]
    ELSE IF resp.endpoint = "POST /leads/score-by-id" /\ resp.body.total_interactions = 0
    THEN [lead_id |-> resp.request.lead_id, lead_score |-> FInt(0),
          quality |-> "unqualified", needs_human_intervention |-> FALSE,
          interaction_details |-> << <<"No interactions found">> >>,
          total_interactions |-> 0, scored_at |-> StrOfDatetime(NowDatetime)]
    ELSE IF resp.endpoint = "POST /leads/score-by-id"
    THEN [lead_id |-> resp.request.lead_id,
          lead_score |-> FInt(score_lead_of_mock.lead_score),
          quality |-> score_lead_of_mock.quality,
          needs_human_intervention |-> score_lead_of_mock.needs_human_intervention,
          interaction_details |-> score_lead_of_mock.interaction_details,
          total_interactions |-> score_lead_of_mock.total_interactions,
          scored_at |-> StrOfDatetime(NowDatetime)]
    ELSE LET leads == resp.request.leads
             results == [k \in 1..Len(leads) |->
                            LeadScoreResponse(
                                ResponseData(leads[k].id, FreshResult(leads[k]),
                                             resp.request.include_features,
                                             resp.request.include_recommendations))]
             failed == Cardinality({k \in 1..Len(leads) : IsMalformed(leads[k])})
         IN  [results |-> results, total_leads |-> Len(leads),
              successful_scores |-> Len(leads) - failed, failed_scores |-> failed]

ScoringEndpoints ==
    {"POST /leads/score", "POST /leads/score-by-id", "POST /leads/score/batch",
     "PUT /leads/update-score"}

IsScored(resp) == resp.endpoint \in ScoringEndpoints /\ resp.status # 422

\* The request was served without a usable cache: no client is attached (none
\* was when it ran), or the client raised during it.
ServedWithoutCache(resp) ==
    \/ ~redis_client
    \/ resp.endpoint = "POST /leads/score/batch" /\ resp.status = 200 /\ resp.cache_error

C16_WritesAreDeferred ==
    [][(\E key \in DOMAIN redis' : key \notin DOMAIN redis \/ redis'[key] # redis[key])
          => /\ Len(background_tasks') = Len(background_tasks) - 1
             /\ response' = response]_vars

\* The leads of a batch whose id no later lead of the batch carries.
LastOfId(leads) ==
    {k \in 1..Len(leads) : \A j \in (k + 1)..Len(leads) : leads[j].id # leads[k].id}

\* C17: every scoring call computes a fresh result from the data supplied in
\* the call and its cache write leaves that result under the lead's key,
\* replacing an earlier entry.  For the batch path: each returned result is
\* the one computed from the lead of the request, and over a working cache
\* the entry of each lead is that result once the call has returned.
C17_LastWriteWins ==
    [][(/\ response' # response
        /\ response'.endpoint = "POST /leads/score/batch"
        /\ response'.status = 200)
          => /\ response'.body = FreshBody(response')
             /\ (redis_client /\ ~response'.cache_error) =>
                   \A k \in LastOfId(response'.request.leads) :
                       LET key == "lead_score:" \o IdStr(response'.request.leads[k].id)
                       IN  /\ key \in DOMAIN redis'
                           /\ redis'[key] =
                                 JsonDumps(FreshResult(response'.request.leads[k]))]_vars

\* C19: a scoring request without its email or its entity id is rejected
\* before anything is scored: every answered score, batch-score and
\* update-score request carried an email and an id for each lead it scored.
C19_RequiredFieldsEnforced ==
    LET complete(lead) ==
            /\ "email" \in DOMAIN lead
            /\ "id" \in DOMAIN lead /\ lead.id # Nothing
    IN  /\ (response.endpoint = "POST /leads/score" /\ response.status = 200) =>
               complete(response.request.lead_data)
        /\ (response.endpoint = "POST /leads/score/batch" /\ response.status = 200) =>
               \A k \in 1..Len(response.request.leads) :
                   complete(response.request.leads[k])
        /\ (response.endpoint = "PUT /leads/update-score" /\ response.status = 200) =>
               complete(UpdateLeadData(response.request))

\* The result a request hands to its deferred cache write.
OwnResult(resp) ==
    IF resp.endpoint = "POST /leads/score"
    THEN ResponseData(resp.request.lead_data.id,
                      calculate_lead_score[resp.request.lead_data],
                      resp.request.include_features,
                      resp.request.include_recommendations)
    ELSE IF resp.endpoint = "PUT /leads/update-score"
    THEN calculate_lead_score[UpdateLeadData(resp.request)]
    ELSE [k \in DOMAIN resp.body \ {"lead_id"} |-> resp.body[k]]

\* background_tasks without its k-th task
WithoutTask(k) ==
    SubSeq(background_tasks, 1, k - 1)
    \o SubSeq(background_tasks, k + 1, Len(background_tasks))

FeatureOr0(features, k) == Get(features, k, FInt(0))

DemographicComposite(features) ==
    FAdd(FAdd(IF Get(features, "has_phone", 0) = 1 THEN Frac(3, 10) ELSE FInt(0),
              IF Get(features, "source_encoded", 0) \in {4, 5} THEN Frac(4, 10)
              ELSE FInt(0)),
         IF Get(features, "num_interested_courses", 0) >= 1 THEN Frac(3, 10) ELSE FInt(0))

\* C21: with the default weights (0.30, 0.25, 0.20, 0.15, 0.10, summing to
\* 1.0) _calculate_rule_based_score returns the weighted sum of email
\* engagement, website activity, the demographic composite (0.3 phone, 0.4
\* source code >= 4, 0.3 an interested course), interaction frequency and
\* content engagement, and the result lies in [0, 1] whenever the engagement
\* features do.
C21_WeightedSum ==
    /\ weights = [email_engagement |-> Frac(3, 10), website_activity |-> Frac(1, 4),
                  demographic_fit |-> Frac(1, 5), interaction_frequency |-> Frac(3, 20),
                  content_engagement |-> Frac(1, 10)]
    /\ FAdd(FAdd(FAdd(FAdd(weights.email_engagement, weights.website_activity),
                      weights.demographic_fit), weights.interaction_frequency),
            weights.content_engagement) = FInt(1)
    /\ (fn_pc = "returned" /\ fn_args.fn = "_calculate_rule_based_score") =>
          LET f == fn_args.features
              sum == FAdd(FAdd(FAdd(FAdd(
                         FMul(Frac(30, 100), FeatureOr0(f, "email_engagement_score")),
                         FMul(Frac(25, 100), FeatureOr0(f, "website_activity_score"))),
                         FMul(Frac(20, 100), DemographicComposite(f))),
                         FMul(Frac(15, 100), FeatureOr0(f, "interaction_frequency"))),
                         FMul(Frac(10, 100), FeatureOr0(f, "content_engagement_score")))
          IN  /\ fn_result = sum
              /\ FGe(fn_result, FInt(0)) /\ FGe(FInt(1), fn_result)

\* The call returned for a feature map with every feature at its maximum and
\* the source code exactly 4: the sum reaches 1, the bound of the range.
C21_Witness ==
    /\ fn_pc = "returned" /\ fn_args.fn = "_calculate_rule_based_score"
    /\ \A k \in {"email_engagement_score", "website_activity_score",
                  "interaction_frequency", "content_engagement_score"} :
           k \in DOMAIN fn_args.features /\ fn_args.features[k] = FInt(1)
    /\ Get(fn_args.features, "has_phone", 0) = 1
    /\ Get(fn_args.features, "source_encoded", 0) = 4
    /\ Get(fn_args.features, "num_interested_courses", 0) = 1
    /\ fn_result = FInt(1)


\* The candidate of the call that a result entry was built from.
CandidateOf(rec) ==
    CHOOSE c \in {fn_args.candidates[i] : i \in 1..Len(fn_args.candidates)} :
        c.id = rec.candidate_id

InRange0To100(x) == FGe(x, FInt(0)) /\ FGe(FInt(100), x)

\* C22: for every candidate processed by recommend_candidates the overall
\* score is 0.35*skill + 0.25*experience + 0.20*performance + 0.15*learning
\* potential + 0.05*cultural fit (read on the two-decimal value the entry
\* carries), each of the five sub-scores lies in [0, 100], and so does the
\* overall score.
C22_BlendInRange ==
    (fn_pc = "returned" /\ fn_args.fn = "recommend_candidates") =>
        \A i \in 1..Len(fn_result) :
            LET rec == fn_result[i]
                f == ExtractCandidateFeatures(CandidateOf(rec))
                blend == FAdd(FAdd(FAdd(FAdd(
                             FMul(Frac(35, 100), rec.skill_match.score),
                             FMul(Frac(25, 100), FInt(rec.experience_match.score))),
                             FMul(Frac(20, 100), CalculatePerformanceScore(f))),
                             FMul(Frac(15, 100), CalculateLearningPotential(f))),
                             FMul(Frac(5, 100), CalculateCulturalFit(f)))
            IN  /\ rec.overall_score = Round2(blend)
                /\ InRange0To100(rec.skill_match.score)
                /\ InRange0To100(FInt(rec.experience_match.score))
                /\ InRange0To100(rec.performance_score)
                /\ InRange0To100(rec.learning_potential)
                /\ InRange0To100(rec.cultural_fit)
                /\ InRange0To100(rec.overall_score)

\* The keywords of a list that occur in a content, as a set.
Matching(keywords, content) ==
    {k \in 1..Len(keywords) : Contains(Lower(content), keywords[k])}

\* C23: for every chat/message content the NLP contribution is 30 if any
\* enterprise keyword matches (else 0) plus 5 for each distinct positive-intent
\* keyword that matches, without a cap, whether or not the content also matches
\* a negative keyword or pattern: a negative match sets the flag and takes
\* nothing from the score.
C23_NlpContribution ==
    (fn_pc = "returned" /\ fn_args.fn = "_analyze_content_nlp") =>
        LET content == fn_args.content
            enterprise == IF Matching(enterprise_keywords, content) /= {} THEN 1 ELSE 0
            positive == Cardinality(Matching(positive_keywords, content))
            negative == \/ Matching(negative_keywords, content) /= {}
                        \/ NegativePatternMatches(Lower(content))
        IN  /\ fn_result[1] = 30 * enterprise + 5 * positive
            /\ fn_result[2] = negative

\* The analysis returned for a content that matches an enterprise keyword, a
\* positive keyword and a negative keyword at once.
C23_Witness ==
    /\ fn_pc = "returned" /\ fn_args.fn = "_analyze_content_nlp"
    /\ Matching(enterprise_keywords, fn_args.content) /= {}
    /\ Cardinality(Matching(positive_keywords, fn_args.content)) = 1
    /\ Matching(negative_keywords, fn_args.content) /= {}
    /\ fn_result = <<35, TRUE>>

\* The lines one event adds for its scoring contributions, in the rule order
\* pricing page, Python page over 180 s, contact form, NLP analysis.
ContributionLines(e) ==
    (IF IsPricingPage(e) THEN << <<"Visited pricing page", 10>> >> ELSE << >>)
    \o (IF MentionsPython(e) /\ e.duration > 180
        THEN << <<"Viewed Python course >3min", 15>> >> ELSE << >>)
    \o (IF IsContactForm(e) THEN << <<"Submitted contact form", 20>> >> ELSE << >>)
    \o (IF IsChatWithContent(e) /\ AnalyzeContentNlp(e.content)[1] > 0
        THEN << <<"NLP analysis", AnalyzeContentNlp(e.content)[1]>> >> ELSE << >>)

\* The same lines with the line of a negative match, which names no points,
\* ahead of the NLP line of its event.
TraceLines(e) ==
    LET lines == ContributionLines(e)
        fixed == SelectSeq(lines, LAMBDA l : l[1] /= "NLP analysis")
        nlp == SelectSeq(lines, LAMBDA l : l[1] = "NLP analysis")
    IN  fixed
        \o (IF TriggersNegative(e)
            THEN << <<"Negative sentiment detected - needs human intervention">> >>
            ELSE << >>)
        \o nlp

\* C24 as stated: the trace score_lead returns holds exactly one line per
\* scoring contribution and no other line, by event position and, within an
\* event, in the rule order pricing, Python, contact form, NLP.
C24_OnlyContributionLines ==
    (score_pc = "returned" /\ score_result.error = None_) =>
        score_result.interaction_details =
            Flatten([i \in 1..Len(interaction_data) |->
                        ContributionLines(interaction_data[i])])

\* C24, amended: the trace holds one line per scoring contribution, by event
\* position and within an event in the rule order pricing, Python, contact
\* form, NLP, and besides them one line without points for every analysed
\* chat/message with a negative match, placed ahead of the NLP line of that
\* event; this holds after every iteration of the loop and in the returned
\* dict.
C24_TraceOrder ==
    /\ score_pc = "loop" =>
          interaction_details =
              Flatten([i \in 1..idx |-> TraceLines(interaction_data[i])])
    /\ (score_pc = "returned" /\ score_result.error = None_) =>
          score_result.interaction_details =
              Flatten([i \in 1..Len(interaction_data) |->
                          TraceLines(interaction_data[i])])

\* A call returned the trace of two events, the first adding the pricing
\* line, the negative-match line and the NLP line in that order, the second
\* the contact-form line.
C24_Witness ==
    /\ score_pc = "returned" /\ score_result.error = None_
    /\ score_result.interaction_details =
          << <<"Visited pricing page", 10>>,
             <<"Negative sentiment detected - needs human intervention">>,
             <<"NLP analysis", 5>>,
             <<"Submitted contact form", 20>> >>

\* The five ordered tiers of the quality label.
QualityTiers == {"very_cold", "cold", "medium", "warm", "hot"}

\* C25: in every result score_lead returns, the result of its error path
\* included, the quality label is one of the five tiers very_cold, cold,
\* medium, warm, hot.
C25_QualityIsTier ==
    score_pc = "returned" => score_result.quality \in QualityTiers

\* C26: in a batch the result at position i is computed from the data of the
\* lead at position i or is a cached result of a lead with the same id; a lead
\* without an id has no such entry, so its result is the one computed from its
\* own data, and a lead with an id gets a result of that id.
C26_ResultsMatchLeads ==
    (response.endpoint = "POST /leads/score/batch" /\ response.status = 200) =>
        LET leads == response.request.leads
        IN  \A k \in 1..Len(leads) :
                IF leads[k].id = Nothing
                THEN response.body.results[k] =
                         LeadScoreResponse(
                             ResponseData(Nothing, FreshResult(leads[k]),
                                          response.request.include_features,
                                          response.request.include_recommendations))
                ELSE response.body.results[k].lead_id = leads[k].id

\* Processing the event fails: its page_url is null, or its content is null
\* and is looked at (the page url does not name Python).
ProcessingFails(e) ==
    \/ e.page_url = None_
    \/ e.content = None_ /\ ~Contains(Lower(e.page_url), <<"python">>)

\* C27: score_lead never raises: a call is in its loop, at an event or at the
\* end of its list, or has returned a dict, and when processing an event fails
\* the call returns lead_score 0,
\* needs_human_intervention true, an empty trace and an error string, whatever
\* points and trace lines the events before it had accumulated; without a
\* failing event the result carries no error.
C27_ErrorResultDiscardsAll ==
    /\ score_pc \in {"loop", "returned"}
    /\ score_pc = "loop" => idx \in 0..Len(interaction_data) /\ score_result = None_
    /\ score_pc = "returned" =>
          IF \E i \in 1..Len(interaction_data) : ProcessingFails(interaction_data[i])
          THEN /\ score_result.lead_score = 0
               /\ score_result.needs_human_intervention = TRUE
               /\ score_result.interaction_details = << >>
               /\ score_result.error /= None_ /\ score_result.error /= << >>
          ELSE score_result.error = None_

\* A call returned its error result after two events had added points and
\* trace lines.
C27_Witness ==
    /\ score_pc = "returned" /\ score_result.error /= None_
    /\ idx = 2 /\ total_score >= 30 /\ Len(interaction_details) >= 2
    /\ score_result.lead_score = 0
    /\ score_result.interaction_details = << >>

\* C28: a score-by-id request that finds no interactions answers with score 0
\* and the one-line trace "No interactions found" for 0 interactions, makes no
\* call of update_lead_score_in_db, and leaves the store and the pending cache
\* writes as they were; a single-score request for a lead without an id
\* leaves the store and the pending cache writes as they were.
C28_NoInteractionsNoWrite ==
    [][/\ ( /\ response'.endpoint = "POST /leads/score-by-id"
            /\ response'.status = 200
            /\ response'.body.total_interactions = 0
            /\ response' /= response \/ Len(background_tasks') > Len(background_tasks) )
          => /\ response'.body.lead_score = FInt(0)
             /\ response'.body.needs_human_intervention = FALSE
             /\ response'.body.interaction_details = << <<"No interactions found">> >>
             /\ response'.db_update = Nothing
             /\ redis' = redis
             /\ background_tasks' = background_tasks
       /\ ( /\ response'.endpoint = "POST /leads/score"
            /\ response'.status = 200
            /\ response'.request.lead_data.id = Nothing
            /\ response' /= response \/ Len(background_tasks') > Len(background_tasks) )
          => /\ redis' = redis
             /\ background_tasks' = background_tasks
      ]_vars

\* A score-by-id request found no interactions for lead 1 while the store
\* held lead_score:1 from an earlier request and no cache write was pending.
C28_Witness ==
    /\ response.endpoint = "POST /leads/score-by-id"
    /\ response.status = 200
    /\ response.body.total_interactions = 0
    /\ response.request.lead_id = 1
    /\ redis_client /\ "lead_score:1" \in DOMAIN redis
    /\ background_tasks = << >>

\* the k-th position, in increasing order, of a set of positions
KthPosition(positions, k) ==
    CHOOSE i \in positions : Cardinality({j \in positions : j < i}) = k - 1

\* the positions of the required skills whose normalized name is a key of
\* the competency vector
KeyedPositions(candidate_competencies, required_skills) ==
    {i \in 1..Len(required_skills) :
        NormalizeName(required_skills[i]) \in DOMAIN candidate_competencies}

\* C29: for a non-empty required-skill list, matched_skills holds, in input
\* order, exactly the required skills whose normalized name is a key of the
\* competency vector, missing_skills holds the others in input order, and
\* the two lengths add up to the length of the list.
C29_SkillPartition ==
    (fn_pc = "returned" /\ fn_args.required_skills /= << >>) =>
        LET required_skills == fn_args.required_skills
            keyed == KeyedPositions(fn_args.candidate_competencies, required_skills)
            others == (1..Len(required_skills)) \ keyed
            matched_skills == fn_result.matched_skills
            missing_skills == fn_result.missing_skills
        IN  /\ Len(matched_skills) + Len(missing_skills) = Len(required_skills)
            /\ Len(matched_skills) = Cardinality(keyed)
            /\ Len(missing_skills) = Cardinality(others)
            /\ \A k \in 1..Len(matched_skills) :
                  matched_skills[k].skill = required_skills[KthPosition(keyed, k)]
            /\ \A k \in 1..Len(missing_skills) :
                  missing_skills[k] = required_skills[KthPosition(others, k)]

\* A call returned for three required skills of which the first and the
\* third are keys of the vector and the second is not.
C29_Witness ==
    /\ fn_pc = "returned"
    /\ fn_args.required_skills = << <<"Machine", "Learning">>, <<"SQL">>, <<"Python">> >>
    /\ DOMAIN fn_args.candidate_competencies = {"machine_learning", "python"}
    /\ Len(fn_result.matched_skills) = 2
    /\ fn_result.missing_skills = << <<"SQL">> >>

\* Processing the candidate raises inside the loop body.
ProcessingRaises(candidate) == ~IsDict(candidate) \/ CandidateRaises(candidate)

\* the positions of the candidates whose processing does not raise
ProcessedPositions(candidates) ==
    {i \in 1..Len(candidates) : ~ProcessingRaises(candidates[i])}

\* C30: recommend_candidates returns a list, and for top_k >= 0 its entries
\* stand for distinct positions of the input, none for a candidate whose
\* processing raises, and there are min(top_k, m) of them, m being the number
\* of candidates whose processing does not raise: a failing candidate is left
\* out and the others are scored and ranked.
C30_FailureIsolated ==
    (fn_pc = "returned" /\ fn_args.fn = "recommend_candidates" /\ fn_args.top_k >= 0) =>
        LET candidates == fn_args.candidates
            processed == ProcessedPositions(candidates)
        IN  /\ Len(fn_result) <= fn_args.top_k /\ Len(fn_result) <= Len(candidates)
            /\ \A i, j \in 1..Len(fn_result) :
                  fn_result[i].candidate_id = fn_result[j].candidate_id => i = j
            /\ \A i \in 1..Len(fn_result) :
                  \E k \in processed : candidates[k].id = fn_result[i].candidate_id
            /\ Len(fn_result) = IF fn_args.top_k < Cardinality(processed)
                                THEN fn_args.top_k ELSE Cardinality(processed)

====
